---- MODULE Spec2Model ----
(***************************************************************************)
(* OrangeDownloader: the engine's item pipeline (Engine::download_item)    *)
(* over the SQLite fragment store and the sparse assembler, the job        *)
(* pipeline (Engine::run_job / wait_job) and the plugin registry.          *)
(*                                                                         *)
(* Sizes and offsets are counted in units of the smallest chunk the engine *)
(* accepts (1 MiB, engine.rs:48).  A file is the sequence of its units;    *)
(* unit number o (0-based) of the remote resource has content o+1, a hole  *)
(* left by set_len has content 0.                                          *)
(***************************************************************************)
EXTENDS Integers, Sequences, FiniteSets, TLC

\* ---------------------------------------------------------------- bounds
MaxTotal == 3        \* largest resource size a probe reports
MaxChunk == 2        \* largest chunk_size an engine is constructed with
MaxConcurrency == 2  \* largest concurrency an engine is constructed with
MaxRuns == 2         \* runs of the item pipeline for the one (source_uri, target_path)
MaxCrashes == 1      \* process crashes
MaxFaults == 1       \* injected driver / store / filesystem errors

\* chunk_size.max(1024 * 1024), in units of 1 MiB
MinChunk == 1
\* concurrency.max(1)
MinConcurrency == 1

\* ------------------------------------------------------------ data model
None == <<>>
Some(v) == <<v>>
IsSome(o) == Len(o) = 1
Unwrap(o) == o[1]

\* FragmentState, store.rs state_to_int / int_to_state
Missing == "Missing"
Downloading == "Downloading"
Done == "Done"
Bad == "Bad"
FragmentState == {Missing, Downloading, Done, Bad}

Min(a, b) == IF a <= b THEN a ELSE b
Max(a, b) == IF a >= b THEN a ELSE b

RECURSIVE SumSeq(_)
SumSeq(s) == IF s = <<>> THEN 0 ELSE Head(s) + SumSeq(Tail(s))

\* ---------------------------------------------------------------- files
NoFile == [exists |-> FALSE, data |-> <<>>]
File(d) == [exists |-> TRUE, data |-> d]

\* File::set_len: truncate or extend with zeros
SetLen(d, n) == [i \in 1..n |-> IF i <= Len(d) THEN d[i] ELSE 0]

\* seek(Start(offset)) then write_all(data): a write past the end extends the file
WriteAt(d, offset, bytes) ==
    LET n == Max(Len(d), offset + Len(bytes))
    IN  [i \in 1..n |-> IF i > offset /\ i <= offset + Len(bytes) THEN bytes[i - offset]
                        ELSE IF i <= Len(d) THEN d[i] ELSE 0]

\* ----------------------------------------------------- remote resource
\* The body of a resource of `size` units.
Body(size) == [i \in 1..size |-> i]

\* driver.download_all: the whole body
DownloadAll(size) == Body(size)

\* driver.download_range(start, end_inclusive) answered with 206: the units of the
\* body in [start, end], cut at the end of the body; a range that starts at or past
\* the end is answered 416 (no body, the call fails).
RangeSatisfiable(size, start) == start < size
DownloadRange(size, start, end_inclusive) ==
    [i \in 1..(Min(end_inclusive, size - 1) - start + 1) |-> start + i]

\* -------------------------------------------------------------- planner
\* A planned fragment: FragmentKey::Range { offset, len }, state Missing
Fragment(offset, len) == [offset |-> offset, len |-> len, state |-> Missing]

RECURSIVE PlanFromFullChunks(_, _, _)
PlanFromFullChunks(offset, total, chunk_size) ==
    IF offset < total
    THEN <<Fragment(offset, chunk_size)>>
             \o PlanFromFullChunks(offset + chunk_size, total, chunk_size)
    ELSE <<>>

\* plan_ranges: the while loop, from `offset` on
RECURSIVE PlanFrom(_, _, _)
PlanFrom(offset, total, chunk_size) ==
    IF offset < total
    THEN LET len == Min(total - offset, chunk_size)
         IN  <<Fragment(offset, len)>> \o PlanFrom(offset + len, total, chunk_size)
    ELSE <<>>

\* plan_ranges(total, chunk_size)
plan_ranges(total, chunk_size) ==
    IF total = 0 THEN <<Fragment(0, 0)>>
    ELSE PlanFrom(0, total, chunk_size)

\* The (offset, len) pairs of fragments
Ranges(s) == [k \in 1..Len(s) |-> [offset |-> s[k].offset, len |-> s[k].len]]

\* ------------------------------------------------------------ variables
VARIABLES
    \* durable store, one (source_uri, target_path) key
    items,            \* rows of table items (at most one: idx_items_unique)
    fragments,        \* rows of table fragments, row id = index
    \* filesystem
    partial_file,     \* <target_path>.partial
    target_file,      \* target_path
    \* one run of Engine::download_item
    pc,               \* position in download_item
    engine,           \* Engine.chunk_size, Engine.concurrency of the running process
    probe,            \* the resource as this run sees it: body size, probed total, supports_ranges
    item_rec,         \* ItemRecord returned by upsert_item
    to_insert,        \* ranges ensure_fragments_for_ranges has still to insert
    db_frags,         \* load_fragments snapshot, ordered by offset
    pending,          \* indices into db_frags not yet dispatched
    tasks,            \* the fragment tasks of the current wave (FuturesUnordered)
    downloaded,       \* Arc<Mutex<u64>> downloaded
    completed_frags,  \* Arc<Mutex<u64>> completed_frags
    item_status,      \* status of the last ItemStatusChanged event of the item
    hist,             \* history of the runs (bookkeeping for the properties)
    \* one job: Engine::add_and_start / run_job / wait_job
    jobs,             \* Engine.jobs[job_id]
    job_notifies,     \* whether Engine.job_notifies holds the job's Notify
    notify_calls,     \* Notify: number of notify_waiters calls so far
    job,              \* run_job locals: position, inputs left, items, any_failed
    waiters,          \* callers of wait_job: position and the Notified future
    \* plugin registry
    scores,           \* can_handle score of each registered resolver, registration order
    best,             \* result of best_resolver
    \* HTTP driver
    http,             \* one call of HttpDriver: probe, download_range or download_all
    \* assembler
    asm,              \* one Assembler: the Mutex<File>, the file cursor, callers of write_at
    \* event channel
    chan,             \* the broadcast::Receivers of Engine.event_tx
    \* command line
    cli               \* main of the download command: position, UI task, exit code

store_vars == <<items, fragments>>
fs_vars == <<partial_file, target_file>>
run_vars == <<pc, engine, probe, item_rec, to_insert, db_frags, pending, tasks,
              downloaded, completed_frags, item_status, hist>>
item_vars == <<store_vars, fs_vars, run_vars>>
job_vars == <<jobs, job_notifies, notify_calls, job, waiters>>
more_vars == <<asm, chan, cli>>
reg_vars == <<scores, best, http, more_vars>>
outside_item == <<job_vars, reg_vars>>
vars == <<item_vars, job_vars, reg_vars>>

\* ---------------------------------------------------------------- store
UpsertItemReplacingRow(rows, chunk_size, total_size, supports_ranges) ==
    <<[id |-> IF rows = <<>> THEN 1 ELSE rows[1].id + 1, total_size |-> total_size,
       chunk_size |-> chunk_size, supports_ranges |-> supports_ranges,
       downloaded_bytes |-> 0]>>

\* SqliteStore::upsert_item: INSERT OR IGNORE, then UPDATE ... COALESCE(?, total_size)
upsert_item(rows, chunk_size, total_size, supports_ranges) ==
    LET inserted == IF rows = <<>>
                    THEN <<[id |-> 1, total_size |-> total_size, chunk_size |-> chunk_size,
                            supports_ranges |-> supports_ranges, downloaded_bytes |-> 0]>>
                    ELSE rows
    IN  [inserted EXCEPT ![1].total_size = IF IsSome(total_size) THEN total_size ELSE @,
                         ![1].chunk_size = chunk_size,
                         ![1].supports_ranges = supports_ranges]

\* SqliteStore::get_item: the ItemRecord of the row
get_item(rows) ==
    [item_db_id |-> rows[1].id, downloaded_bytes |-> rows[1].downloaded_bytes,
     total_size |-> rows[1].total_size]

\* SqliteStore::load_fragments: SELECT ... ORDER BY offset ASC (row id breaks ties)
Before(frs, a, b) == frs[a].offset < frs[b].offset \/ (frs[a].offset = frs[b].offset /\ a < b)
Rank(frs, a) == Cardinality({b \in 1..Len(frs) : Before(frs, b, a)}) + 1
load_fragments(frs) ==
    [k \in 1..Len(frs) |->
        LET id == CHOOSE a \in 1..Len(frs) : Rank(frs, a) = k
        IN  [frag_db_id |-> id, offset |-> frs[id].offset, len |-> frs[id].len,
             state |-> frs[id].state]]

\* The rows ensure_fragments_for_ranges inserts: one Missing fragment per range
MissingRows(ranges) ==
    [k \in 1..Len(ranges) |->
        [offset |-> ranges[k].offset, len |-> ranges[k].len, state |-> Missing]]

EnsureInsertsAlways(frs, ranges) == frs \o MissingRows(ranges)

\* SqliteStore::ensure_fragments_for_ranges, a call in which no statement fails:
\* nothing when the item has a fragment, else the ranges as Missing rows
ensure_fragments_for_ranges(frs, ranges) ==
    IF Len(frs) > 0 THEN frs ELSE frs \o MissingRows(ranges)

\* SqliteStore::set_fragment_state: UPDATE fragments SET state = ? WHERE id = ?
set_fragment_state(frs, frag_db_id, state) == [frs EXCEPT ![frag_db_id].state = state]

\* SqliteStore::mark_fragment_done_and_add_bytes, first statement
MarkFragmentDone(frs, frag_db_id) == [frs EXCEPT ![frag_db_id].state = Done]

\* SqliteStore::mark_fragment_done_and_add_bytes, second statement
AddDownloadedBytes(rows, bytes) == [rows EXCEPT ![1].downloaded_bytes = @ + bytes]

\* ------------------------------------------------------ engine helpers
RangesToEnsureIgnoringProbe(total, supports_ranges, chunk_size) ==
    IF IsSome(total)
    THEN Ranges(plan_ranges(Unwrap(total), chunk_size))
    ELSE <<[offset |-> 0, len |-> 0]>>

\* download_item: the ranges handed to ensure_fragments_for_ranges
RangesToEnsure(total, supports_ranges, chunk_size) ==
    IF supports_ranges /\ IsSome(total)
    THEN Ranges(plan_ranges(Unwrap(total), chunk_size))
    ELSE <<[offset |-> 0, len |-> 0]>>

\* download_item: pending = indices of the Missing and Bad fragments of the snapshot
RECURSIVE PendingFrom(_, _)
PendingFrom(frs, i) ==
    IF i > Len(frs) THEN <<>>
    ELSE (IF frs[i].state \in {Missing, Bad} THEN <<i>> ELSE <<>>) \o PendingFrom(frs, i + 1)
PendingOf(frs) == PendingFrom(frs, 1)

\* download_item: completed_init
CompletedInit(frs) == Cardinality({i \in 1..Len(frs) : frs[i].state = Done})

AllDone(frs) == \A i \in 1..Len(frs) : frs[i].state = Done

NoRec == [item_db_id |-> 0, downloaded_bytes |-> 0, total_size |-> None]
NoTasks == <<>>

\* ------------------------------------------------- item pipeline: runs
\* An injected error (driver, store or filesystem) in the current run.
CanFault == hist.faults < MaxFaults
Faulted(h, ok) == IF ok THEN h ELSE [h EXCEPT !.faults = @ + 1, !.run_faulted = TRUE]

ResetLocals ==
    /\ item_rec' = NoRec
    /\ to_insert' = <<>>
    /\ db_frags' = <<>>
    /\ pending' = <<>>
    /\ tasks' = NoTasks
    /\ downloaded' = 0
    /\ completed_frags' = 0

\* download_item returns Err; run_job emits Error and ItemStatusChanged(Failed).
\* Dropping the FuturesUnordered abandons every other task of the wave where it is.
ItemFails(h, by_task) ==
    /\ pc' = "idle"
    /\ item_status' = "Failed"
    /\ hist' = [h EXCEPT !.result = "Err", !.interrupted = by_task]
    /\ ResetLocals

\* The fragments of the item are planned: ensure_fragments_for_ranges is not under way.
Planned == pc \notin {"upsert", "ensure", "insert"}

\* The process dies; the store and the files stay as they are.
Crash ==
    /\ pc # "idle"
    /\ UNCHANGED outside_item
    /\ hist.crashes < MaxCrashes
    /\ pc' = "idle"
    /\ hist' = [hist EXCEPT !.crashes = @ + 1, !.result = "Crashed", !.interrupted = Planned]
    /\ ResetLocals
    /\ UNCHANGED <<store_vars, fs_vars, engine, probe, item_status>>

\* Engine::new clamps the configuration; download_item emits ItemStatusChanged(Downloading),
\* selects the driver and probes: (total_opt, supports_ranges), (None, false) on a probe error.
StartRun(concurrency, chunk_size, body, probe_ok, known, supports_ranges) ==
    /\ pc = "idle"
    /\ UNCHANGED outside_item
    /\ hist.runs < MaxRuns
    /\ probe_ok \/ (~known /\ ~supports_ranges)    \* a failed probe reports nothing
    /\ LET e == [concurrency |-> Max(concurrency, MinConcurrency),
                 chunk_size |-> Max(chunk_size, MinChunk)]
           p == [body |-> body,
                 total |-> IF probe_ok /\ known THEN Some(body) ELSE None,
                 supports_ranges |-> probe_ok /\ supports_ranges]
       IN  /\ engine' = e
           /\ probe' = p
           /\ hist' = [hist EXCEPT
                  !.runs = @ + 1,
                  !.run_faulted = FALSE,
                  !.requested = {},
                  !.calls = {},
                  !.probe_failed = ~probe_ok,
                  !.result = "running",
                  !.resumed = hist.interrupted /\ p = probe /\ e.chunk_size = engine.chunk_size,
                  !.done_at_start = {i \in 1..Len(fragments) : fragments[i].state = Done},
                  !.stored_total = IF items = <<>> THEN None ELSE items[1].total_size,
                  !.had_fragments = Len(fragments) > 0,
                  !.target_at_start = target_file,
                  !.waves = 0,
                  !.last_fragment_done = None,
                  !.last_progress = None]
    /\ item_status' = "Downloading"
    /\ pc' = "upsert"
    /\ UNCHANGED <<store_vars, fs_vars, item_rec, to_insert, db_frags, pending, tasks,
                   downloaded, completed_frags>>

\* item.total_size = total_opt; store.upsert_item(...).await?
UpsertItem(ok) ==
    /\ pc = "upsert"
    /\ UNCHANGED outside_item
    /\ ok \/ CanFault
    /\ IF ok
       THEN /\ items' = upsert_item(items, engine.chunk_size, probe.total,
                                    probe.supports_ranges /\ IsSome(probe.total))
            /\ item_rec' = get_item(items')
            /\ pc' = "ensure"
            /\ hist' = hist
            /\ UNCHANGED <<fragments, fs_vars, engine, probe, to_insert, db_frags, pending,
                           tasks, downloaded, completed_frags, item_status>>
       ELSE /\ ItemFails(Faulted(hist, FALSE), FALSE)
            /\ UNCHANGED <<store_vars, fs_vars, engine, probe>>

\* ensure_fragments_for_ranges: SELECT COUNT(1); return if existing > 0
EnsureFragments(ok) ==
    /\ pc = "ensure"
    /\ UNCHANGED outside_item
    /\ ok \/ CanFault
    /\ IF ok
       THEN /\ IF Len(fragments) > 0
               THEN pc' = "load" /\ to_insert' = <<>>
               ELSE /\ pc' = "insert"
                    /\ to_insert' = RangesToEnsure(probe.total, probe.supports_ranges,
                                                   engine.chunk_size)
            /\ hist' = hist
            /\ UNCHANGED <<store_vars, fs_vars, engine, probe, item_rec, db_frags, pending,
                           tasks, downloaded, completed_frags, item_status>>
       ELSE /\ ItemFails(Faulted(hist, FALSE), FALSE)
            /\ UNCHANGED <<store_vars, fs_vars, engine, probe>>

\* ensure_fragments_for_ranges: one INSERT INTO fragments of the loop
InsertFragment(ok) ==
    /\ pc = "insert"
    /\ UNCHANGED outside_item
    /\ ok \/ CanFault
    /\ IF ok
       THEN /\ fragments' = Append(fragments, [offset |-> Head(to_insert).offset,
                                               len |-> Head(to_insert).len,
                                               state |-> Missing])
            /\ to_insert' = Tail(to_insert)
            /\ pc' = IF Tail(to_insert) = <<>> THEN "load" ELSE "insert"
            /\ hist' = [hist EXCEPT !.returned = Append(@, None)]
            /\ UNCHANGED <<items, fs_vars, engine, probe, item_rec, db_frags, pending,
                           tasks, downloaded, completed_frags, item_status>>
       ELSE /\ ItemFails(Faulted(hist, FALSE), FALSE)
            /\ UNCHANGED <<store_vars, fs_vars, engine, probe>>

\* db_frags = store.load_fragments(...).await?
LoadFragments(ok) ==
    /\ pc = "load"
    /\ UNCHANGED outside_item
    /\ ok \/ CanFault
    /\ IF ok
       THEN /\ db_frags' = load_fragments(fragments)
            /\ pc' = "create"
            /\ hist' = hist
            /\ UNCHANGED <<store_vars, fs_vars, engine, probe, item_rec, to_insert, pending,
                           tasks, downloaded, completed_frags, item_status>>
       ELSE /\ ItemFails(Faulted(hist, FALSE), FALSE)
            /\ UNCHANGED <<store_vars, fs_vars, engine, probe>>

\* Assembler::create(&partial_path, item.total_size): open with create, no truncate,
\* set_len(total) when the total is known; then downloaded, completed_frags, pending
AssemblerCreate(ok) ==
    /\ pc = "create"
    /\ UNCHANGED outside_item
    /\ ok \/ CanFault
    /\ IF ok
       THEN /\ partial_file' = File(IF IsSome(probe.total)
                                    THEN SetLen(partial_file.data, Unwrap(probe.total))
                                    ELSE partial_file.data)
            /\ downloaded' = Max(item_rec.downloaded_bytes, 0)
            /\ completed_frags' = CompletedInit(db_frags)
            /\ pending' = PendingOf(db_frags)
            /\ pc' = "dispatch"
            /\ hist' = hist
            /\ UNCHANGED <<store_vars, target_file, engine, probe, item_rec, to_insert,
                           db_frags, tasks, item_status>>
       ELSE /\ ItemFails(Faulted(hist, FALSE), FALSE)
            /\ UNCHANGED <<store_vars, fs_vars, engine, probe>>

DispatchAllPending ==
    /\ pc = "dispatch"
    /\ UNCHANGED outside_item
    /\ IF pending = <<>>
       THEN /\ pc' = "flush"
            /\ UNCHANGED <<pending, tasks, hist>>
       ELSE /\ tasks' = [i \in {pending[k] : k \in 1..Len(pending)} |->
                            [pc |-> "set_state", bytes |-> <<>>, dnow |-> 0]]
            /\ pending' = <<>>
            /\ pc' = "wave"
            /\ hist' = [hist EXCEPT !.waves = @ + 1]
    /\ UNCHANGED <<store_vars, fs_vars, engine, probe, item_rec, to_insert, db_frags,
                   downloaded, completed_frags, item_status>>

\* while !pending.is_empty(): batch = pending.drain(0..min(len, concurrency)); push the tasks
Dispatch ==
    /\ pc = "dispatch"
    /\ UNCHANGED outside_item
    /\ IF pending = <<>>
       THEN /\ pc' = "flush"
            /\ UNCHANGED <<pending, tasks, hist>>
       ELSE LET n == Min(Len(pending), engine.concurrency)
            IN  /\ tasks' = [i \in {pending[k] : k \in 1..n} |->
                                [pc |-> "set_state", bytes |-> <<>>, dnow |-> 0]]
                /\ pending' = SubSeq(pending, n + 1, Len(pending))
                /\ pc' = "wave"
                /\ hist' = [hist EXCEPT !.waves = @ + 1]
    /\ UNCHANGED <<store_vars, fs_vars, engine, probe, item_rec, to_insert, db_frags,
                   downloaded, completed_frags, item_status>>

\* ------------------------------------------ item pipeline: fragment task
TaskAt(i, at) == pc = "wave" /\ i \in DOMAIN tasks /\ tasks[i].pc = at

\* The task returns Err: the drain loop emits Error and bails out of download_item.
TaskFails(h) ==
    /\ ItemFails(h, TRUE)
    /\ UNCHANGED <<engine, probe>>

\* store2.set_fragment_state(f.frag_db_id, Downloading).await.ok(): an error is dropped
TaskSetDownloading(i, ok) ==
    /\ TaskAt(i, "set_state")
    /\ UNCHANGED outside_item
    /\ ok \/ CanFault
    /\ fragments' = IF ok THEN set_fragment_state(fragments, db_frags[i].frag_db_id, Downloading)
                    ELSE fragments
    /\ tasks' = [tasks EXCEPT ![i].pc = "driver"]
    /\ hist' = Faulted(hist, ok)
    /\ UNCHANGED <<items, fs_vars, pc, engine, probe, item_rec, to_insert, db_frags, pending,
                   downloaded, completed_frags, item_status>>

TaskDriverRetries(i, ok) ==
    /\ TaskAt(i, "driver")
    /\ UNCHANGED outside_item
    /\ ok \/ CanFault
    /\ LET f == db_frags[i]
           call == IF f.len = 0
                   THEN [fn |-> "download_all", start |-> 0, end_inclusive |-> 0]
                   ELSE [fn |-> "download_range", start |-> f.offset,
                         end_inclusive |-> f.offset + f.len - 1]
           h == [Faulted(hist, ok) EXCEPT !.requested = @ \cup {f.frag_db_id},
                                         !.calls = @ \cup {call}]
           answered == f.len = 0 \/ RangeSatisfiable(probe.body, f.offset)
           bytes == IF f.len = 0 THEN DownloadAll(probe.body)
                    ELSE DownloadRange(probe.body, f.offset, f.offset + f.len - 1)
       IN  /\ tasks' = IF ok /\ answered
                       THEN [tasks EXCEPT ![i] = [pc |-> "write", bytes |-> bytes, dnow |-> 0]]
                       ELSE [tasks EXCEPT ![i].pc = "set_state"]
           /\ hist' = IF ok /\ answered
                      THEN [h EXCEPT !.returned[f.frag_db_id] = Some(bytes)]
                      ELSE h
           /\ UNCHANGED <<store_vars, fs_vars, pc, engine, probe, item_rec, to_insert,
                          db_frags, pending, downloaded, completed_frags, item_status>>

\* bytes = if len == 0 { download_all } else { download_range(offset, offset + len - 1) }?
TaskDriver(i, ok) ==
    /\ TaskAt(i, "driver")
    /\ UNCHANGED outside_item
    /\ ok \/ CanFault
    /\ LET f == db_frags[i]
           call == IF f.len = 0
                   THEN [fn |-> "download_all", start |-> 0, end_inclusive |-> 0]
                   ELSE [fn |-> "download_range", start |-> f.offset,
                         end_inclusive |-> f.offset + f.len - 1]
           h == [Faulted(hist, ok) EXCEPT !.requested = @ \cup {f.frag_db_id},
                                         !.calls = @ \cup {call}]
           answered == f.len = 0 \/ RangeSatisfiable(probe.body, f.offset)
           bytes == IF f.len = 0 THEN DownloadAll(probe.body)
                    ELSE DownloadRange(probe.body, f.offset, f.offset + f.len - 1)
       IN  IF ok /\ answered
           THEN /\ tasks' = [tasks EXCEPT ![i] = [pc |-> "write", bytes |-> bytes, dnow |-> 0]]
                /\ hist' = [h EXCEPT !.returned[f.frag_db_id] = Some(bytes)]
                /\ UNCHANGED <<store_vars, fs_vars, pc, engine, probe, item_rec, to_insert,
                               db_frags, pending, downloaded, completed_frags, item_status>>
           ELSE /\ TaskFails(h)
                /\ UNCHANGED <<store_vars, fs_vars>>

TaskWriteErrorDropped(i, ok) ==
    /\ TaskAt(i, "write")
    /\ UNCHANGED outside_item
    /\ ok \/ CanFault
    /\ partial_file' = IF ok THEN File(WriteAt(partial_file.data, db_frags[i].offset,
                                               tasks[i].bytes))
                      ELSE partial_file
    /\ tasks' = [tasks EXCEPT ![i].pc = "mark_done"]
    /\ hist' = Faulted(hist, ok)
    /\ UNCHANGED <<store_vars, target_file, pc, engine, probe, item_rec, to_insert,
                   db_frags, pending, downloaded, completed_frags, item_status>>

\* assembler2.write_at(offset, &bytes).await?
TaskWrite(i, ok) ==
    /\ TaskAt(i, "write")
    /\ UNCHANGED outside_item
    /\ ok \/ CanFault
    /\ IF ok
       THEN /\ partial_file' = File(WriteAt(partial_file.data, db_frags[i].offset, tasks[i].bytes))
            /\ tasks' = [tasks EXCEPT ![i].pc = "mark_done"]
            /\ hist' = hist
            /\ UNCHANGED <<store_vars, target_file, pc, engine, probe, item_rec, to_insert,
                           db_frags, pending, downloaded, completed_frags, item_status>>
       ELSE /\ TaskFails(Faulted(hist, FALSE))
            /\ UNCHANGED <<store_vars, fs_vars>>

\* mark_fragment_done_and_add_bytes: UPDATE fragments SET state = Done ... .await?
TaskMarkDone(i, ok) ==
    /\ TaskAt(i, "mark_done")
    /\ UNCHANGED outside_item
    /\ ok \/ CanFault
    /\ IF ok
       THEN /\ fragments' = MarkFragmentDone(fragments, db_frags[i].frag_db_id)
            /\ tasks' = [tasks EXCEPT ![i].pc = "add_bytes"]
            /\ hist' = hist
            /\ UNCHANGED <<items, fs_vars, pc, engine, probe, item_rec, to_insert, db_frags,
                           pending, downloaded, completed_frags, item_status>>
       ELSE /\ TaskFails(Faulted(hist, FALSE))
            /\ UNCHANGED <<store_vars, fs_vars>>

\* mark_fragment_done_and_add_bytes: UPDATE items SET downloaded_bytes = ... + ? .await?
TaskAddBytes(i, ok) ==
    /\ TaskAt(i, "add_bytes")
    /\ UNCHANGED outside_item
    /\ ok \/ CanFault
    /\ IF ok
       THEN /\ items' = AddDownloadedBytes(items, Len(tasks[i].bytes))
            /\ tasks' = [tasks EXCEPT ![i].pc = "counters"]
            /\ hist' = hist
            /\ UNCHANGED <<fragments, fs_vars, pc, engine, probe, item_rec, to_insert, db_frags,
                           pending, downloaded, completed_frags, item_status>>
       ELSE /\ TaskFails(Faulted(hist, FALSE))
            /\ UNCHANGED <<store_vars, fs_vars>>

\* let dnow = { let mut d = downloaded2.lock().await; *d += bytes.len(); *d }: the value is
\* taken under the lock, which is released before completed2.lock().await
TaskAddDownloaded(i) ==
    /\ TaskAt(i, "counters")
    /\ UNCHANGED outside_item
    /\ downloaded' = downloaded + Len(tasks[i].bytes)
    /\ tasks' = [tasks EXCEPT ![i].pc = "completed", ![i].dnow = downloaded']
    /\ UNCHANGED <<store_vars, fs_vars, pc, engine, probe, item_rec, to_insert, db_frags,
                   pending, completed_frags, item_status, hist>>

TaskCountersSendsFirst(i) ==
    /\ TaskAt(i, "completed")
    /\ UNCHANGED outside_item
    /\ completed_frags' = completed_frags + 1
    /\ hist' = [hist EXCEPT !.last_fragment_done = Some(completed_frags),
                            !.last_progress = Some(tasks[i].dnow)]
    /\ tasks' = [j \in DOMAIN tasks \ {i} |-> tasks[j]]
    /\ pc' = IF DOMAIN tasks = {i} THEN "dispatch" ELSE "wave"
    /\ UNCHANGED <<store_vars, fs_vars, engine, probe, item_rec, to_insert, db_frags, pending,
                   downloaded, item_status>>

\* Under the lock of completed2: *c += 1 and FragmentDone { completed: *c } is sent; then,
\* with no await in between, Progress { downloaded: dnow } is sent and the task returns
\* Ok(cnow). The drain loop takes the result; after the last task of the wave the while
\* loop goes on.
TaskCounters(i) ==
    /\ TaskAt(i, "completed")
    /\ UNCHANGED outside_item
    /\ completed_frags' = completed_frags + 1
    /\ hist' = [hist EXCEPT !.last_fragment_done = Some(completed_frags'),
                            !.last_progress = Some(tasks[i].dnow)]
    /\ tasks' = [j \in DOMAIN tasks \ {i} |-> tasks[j]]
    /\ pc' = IF DOMAIN tasks = {i} THEN "dispatch" ELSE "wave"
    /\ UNCHANGED <<store_vars, fs_vars, engine, probe, item_rec, to_insert, db_frags, pending,
                   downloaded, item_status>>

\* let total = item.total_size: the total of the Progress events of the run
ProgressTotal == probe.total

\* ----------------------------------------------- item pipeline: the end
\* assembler.flush().await?; ItemStatusChanged(Assembling)
Flush(ok) ==
    /\ pc = "flush"
    /\ UNCHANGED outside_item
    /\ ok \/ CanFault
    /\ IF ok
       THEN /\ pc' = "verify"
            /\ item_status' = "Assembling"
            /\ hist' = hist
            /\ UNCHANGED <<store_vars, fs_vars, engine, probe, item_rec, to_insert, db_frags,
                           pending, tasks, downloaded, completed_frags>>
       ELSE /\ ItemFails(Faulted(hist, FALSE), FALSE)
            /\ UNCHANGED <<store_vars, fs_vars, engine, probe>>

VerifySkipsCheck(ok) ==
    /\ pc = "verify"
    /\ UNCHANGED outside_item
    /\ ok \/ CanFault
    /\ IF ok
       THEN /\ pc' = "remove"
            /\ hist' = hist
            /\ UNCHANGED <<store_vars, fs_vars, engine, probe, item_rec, to_insert, db_frags,
                           pending, tasks, downloaded, completed_frags, item_status>>
       ELSE /\ ItemFails(Faulted(hist, ok), FALSE)
            /\ UNCHANGED <<store_vars, fs_vars, engine, probe>>

\* db_frags2 = load_fragments(...).await?; bail unless all are Done
Verify(ok) ==
    /\ pc = "verify"
    /\ UNCHANGED outside_item
    /\ ok \/ CanFault
    /\ IF ok /\ AllDone(load_fragments(fragments))
       THEN /\ pc' = "remove"
            /\ hist' = hist
            /\ UNCHANGED <<store_vars, fs_vars, engine, probe, item_rec, to_insert, db_frags,
                           pending, tasks, downloaded, completed_frags, item_status>>
       ELSE /\ ItemFails(Faulted(hist, ok), FALSE)
            /\ UNCHANGED <<store_vars, fs_vars, engine, probe>>

\* if metadata(target_path).is_ok() { let _ = remove_file(target_path) }
RemoveTarget ==
    /\ pc = "remove"
    /\ UNCHANGED outside_item
    /\ target_file' = NoFile
    /\ pc' = "rename"
    /\ UNCHANGED <<store_vars, partial_file, engine, probe, item_rec, to_insert, db_frags,
                   pending, tasks, downloaded, completed_frags, item_status, hist>>

\* rename(partial_path, target_path).await?; Ok(()); run_job emits ItemStatusChanged(Done)
Rename(ok) ==
    /\ pc = "rename"
    /\ UNCHANGED outside_item
    /\ ok \/ CanFault
    /\ IF ok
       THEN /\ target_file' = partial_file
            /\ partial_file' = NoFile
            /\ pc' = "idle"
            /\ item_status' = "Done"
            /\ hist' = [hist EXCEPT !.result = "Ok", !.interrupted = FALSE]
            /\ ResetLocals
            /\ UNCHANGED <<store_vars, engine, probe>>
       ELSE /\ ItemFails(Faulted(hist, FALSE), FALSE)
            /\ UNCHANGED <<store_vars, fs_vars, engine, probe>>

\* ------------------------------------------- item pipeline: specification
\* No download_item is under way and no file exists.
RunIdle ==
    /\ partial_file = NoFile
    /\ target_file = NoFile
    /\ pc = "idle"
    /\ engine = [concurrency |-> MinConcurrency, chunk_size |-> MinChunk]
    /\ probe = [body |-> 0, total |-> None, supports_ranges |-> FALSE]
    /\ item_rec = NoRec
    /\ to_insert = <<>>
    /\ db_frags = <<>>
    /\ pending = <<>>
    /\ tasks = NoTasks
    /\ downloaded = 0
    /\ completed_frags = 0
    /\ item_status = "Ready"

ItemInit ==
    /\ items = <<>>
    /\ fragments = <<>>
    /\ RunIdle
    /\ hist = [runs |-> 0, crashes |-> 0, faults |-> 0, run_faulted |-> FALSE,
               requested |-> {}, result |-> "none", interrupted |-> FALSE,
               resumed |-> FALSE, done_at_start |-> {}, returned |-> <<>>,
               stored_total |-> None, had_fragments |-> FALSE,
               calls |-> {}, probe_failed |-> FALSE, target_at_start |-> NoFile,
               waves |-> 0, last_fragment_done |-> None, last_progress |-> None]

JobIdle ==
    /\ jobs = "none"
    /\ job_notifies = FALSE
    /\ notify_calls = 0
    /\ job = [pc |-> "none"]
    /\ waiters = <<>>

NoCall == [fn |-> "none"]

\* No Assembler exists.
NoAssembler == [open |-> FALSE]

\* ------------------------------------------------------- event channel
MaxReceivers == 1    \* receivers subscribed over the life of the engine
ChannelCapacity == 2 \* events the channel retains for a receiver (broadcast::channel(256))

Receivers == 1..MaxReceivers

\* A receiver that does not exist (never subscribed, or dropped)
NoReceiver == [state |-> "closed", next |-> 0, late |-> FALSE, lagged |-> FALSE]

\* The events sent and not yet taken by the slowest receiver; 0 without receivers
Backlog(sent) ==
    LET open == {r \in Receivers : chan[r].state = "open"}
    IN  IF open = {} THEN 0
        ELSE LET r == CHOOSE a \in open : \A b \in open : chan[a].next <= chan[b].next
             IN  sent + 1 - chan[r].next

SendWithBackPressure(backlog) == backlog < ChannelCapacity

\* let _ = self.event_tx.send(..): broadcast::Sender::send does not wait for receivers and
\* its result (Err without receivers) is dropped: the sender goes on whatever the backlog
SendGoesOn(backlog) == TRUE

\* The download command is not running.
NoCli == [pc |-> "none"]

MoreIdle ==
    /\ asm = NoAssembler
    /\ chan = [r \in Receivers |-> NoReceiver]
    /\ cli = NoCli

RegistryIdle ==
    /\ scores = <<>>
    /\ best = None
    /\ http = NoCall
    /\ MoreIdle

Init == ItemInit /\ JobIdle /\ RegistryIdle

ItemNext ==
    \/ \E concurrency \in 0..MaxConcurrency, chunk_size \in 0..MaxChunk,
          body \in 0..MaxTotal, probe_ok \in BOOLEAN, known \in BOOLEAN,
          supports_ranges \in BOOLEAN :
            StartRun(concurrency, chunk_size, body, probe_ok, known, supports_ranges)
    \/ Crash
    \/ \E ok \in BOOLEAN : UpsertItem(ok)
    \/ \E ok \in BOOLEAN : EnsureFragments(ok)
    \/ \E ok \in BOOLEAN : InsertFragment(ok)
    \/ \E ok \in BOOLEAN : LoadFragments(ok)
    \/ \E ok \in BOOLEAN : AssemblerCreate(ok)
    \/ Dispatch
    \/ \E i \in DOMAIN tasks, ok \in BOOLEAN : TaskSetDownloading(i, ok)
    \/ \E i \in DOMAIN tasks, ok \in BOOLEAN : TaskDriver(i, ok)
    \/ \E i \in DOMAIN tasks, ok \in BOOLEAN : TaskWrite(i, ok)
    \/ \E i \in DOMAIN tasks, ok \in BOOLEAN : TaskMarkDone(i, ok)
    \/ \E i \in DOMAIN tasks, ok \in BOOLEAN : TaskAddBytes(i, ok)
    \/ \E i \in DOMAIN tasks : TaskAddDownloaded(i)
    \/ \E i \in DOMAIN tasks : TaskCounters(i)
    \/ \E ok \in BOOLEAN : Flush(ok)
    \/ \E ok \in BOOLEAN : Verify(ok)
    \/ RemoveTarget
    \/ \E ok \in BOOLEAN : Rename(ok)

Next == ItemNext

Spec == Init /\ [][Next]_vars

\* -------------------------------------------------------------- registry
MaxResolvers == 4    \* resolvers registered in a registry under test
ScoreSet == {0, 60, 90}
Unset == <<0, 0>>

\* Iterator::max_by_key: a fold that keeps the later element when the keys are equal
RECURSIVE MaxByKeyFrom(_, _, _)
MaxByKeyFrom(sc, i, acc) ==
    IF i > Len(sc) THEN acc
    ELSE MaxByKeyFrom(sc, i + 1, IF sc[i] >= sc[acc] THEN i ELSE acc)
max_by_key(sc) == MaxByKeyFrom(sc, 2, 1)

\* PluginRegistry::best_resolver over the can_handle scores, in registration order:
\* the index of the resolver returned, None when the maximum is 0 (or nothing is registered)
best_resolver(sc) ==
    IF sc = <<>> THEN None
    ELSE LET i == max_by_key(sc) IN IF sc[i] = 0 THEN None ELSE Some(i)

\* PluginRegistry::with_defaults: the resolvers in registration order
DefaultResolvers == <<"github", "http", "bt", "ed2k", "ftp", "sftp", "adb">>

\* LinkResolver::can_handle of each resolver, by the kind of link the input is
LinkKinds == {"github", "http", "magnet", "ftp", "junk"}
can_handle(resolver, kind) ==
    CASE resolver = "github" -> IF kind = "github" THEN 90 ELSE 0
      [] resolver = "http"   -> IF kind \in {"github", "http"} THEN 60 ELSE 0
      [] resolver = "bt"     -> IF kind = "magnet" THEN 80 ELSE 0
      [] resolver = "ed2k"   -> IF kind = "ed2k" THEN 80 ELSE 0
      [] resolver = "ftp"    -> IF kind = "ftp" THEN 70 ELSE 0
      [] resolver = "sftp"   -> IF kind = "sftp" THEN 70 ELSE 0
      [] resolver = "adb"    -> IF kind = "adb" THEN 70 ELSE 0
ScoresOf(kind) == [i \in 1..Len(DefaultResolvers) |-> can_handle(DefaultResolvers[i], kind)]

\* LinkResolver::resolve of each resolver: the rtype of the primary resource of its draft
ResolvedType(resolver) ==
    CASE resolver = "github" -> "GitHubResolvedHttp"
      [] resolver = "http"   -> "Http"
      [] resolver = "bt"     -> "BitTorrent"
      [] resolver = "ed2k"   -> "Ed2k"
      [] resolver = "ftp"    -> "Ftp"
      [] resolver = "sftp"   -> "Sftp"
      [] resolver = "adb"    -> "Adb"

\* The rtype of the item an input of this kind resolves to (its best resolver accepts it)
ResourceOf(kind) ==
    ResolvedType(DefaultResolvers[Unwrap(best_resolver(ScoresOf(kind)))])

\* PluginRegistry::with_defaults: the drivers in registration order
DefaultDrivers == <<"http">>

\* TransferDriver::supports of each driver
supports(driver, rtype) ==
    CASE driver = "http" -> rtype \in {"Http", "GitHubResolvedHttp"}
      [] driver = "ftp"  -> rtype = "Ftp"

\* PluginRegistry::driver_for: the first registered driver that supports the resource
driver_for(rtype) ==
    LET found == {i \in 1..Len(DefaultDrivers) : supports(DefaultDrivers[i], rtype)}
    IN  IF found = {} THEN None
        ELSE Some(DefaultDrivers[CHOOSE i \in found : \A j \in found : i <= j])

\* download_item: the resource types it hands to a single-shot driver of its own
SingleShotTypes == {"BitTorrent", "Adb", "Ed2k", "Sftp"}

\* registry.best_resolver(&input) is applied to the scores under test
BestResolver ==
    /\ best = Unset
    /\ best' = best_resolver(scores)
    /\ UNCHANGED <<scores, http, more_vars, item_vars, job_vars>>

RegistryInit ==
    /\ scores \in UNION {[1..n -> ScoreSet] : n \in 0..MaxResolvers}
    /\ best = Unset
    /\ http = NoCall
    /\ MoreIdle
    /\ ItemInit
    /\ JobIdle

RegistryNext == BestResolver

RegistrySpec == RegistryInit /\ [][RegistryNext]_vars

\* ------------------------------------------------------------------ job
MaxInputs == 2       \* inputs of the job
MaxWaiters == 1      \* concurrent callers of wait_job
MaxFragEvents == 1   \* fragments an item pipeline completes (FragmentDone, Progress)

\* EngineEvent values sent on event_tx; item = index of the input the item came from
Event(ev, item, status) == [ev |-> ev, item |-> item, status |-> status]
JobStatusChanged(status) == Event("JobStatusChanged", 0, status)
ItemAdded(item) == Event("ItemAdded", item, "")
ItemStatusChanged(item, status) == Event("ItemStatusChanged", item, status)
FragmentDone(item) == Event("FragmentDone", item, "")
Progress(item) == Event("Progress", item, "")
Error(item, scope) == Event("Error", item, scope)
Info(item, scope) == Event("Info", item, scope)

\* The events download_item sends while it completes n fragments
RECURSIVE FragmentEvents(_, _)
FragmentEvents(item, n) ==
    IF n = 0 THEN <<>>
    ELSE <<FragmentDone(item), Progress(item)>> \o FragmentEvents(item, n - 1)

Waiters == 1..MaxWaiters

\* is_job_finished(id)
is_job_finished == jobs \in {"Completed", "Failed"}

FinalStatusAlwaysCompleted(any_failed) == "Completed"

\* run_job: the final status
FinalStatus(any_failed) == IF any_failed THEN "Failed" ELSE "Completed"

\* add_and_start: jobs.insert(Pending), JobStatusChanged(Pending), the Notify is created
\* and stored, the job task is spawned, the id is returned.
AddAndStart ==
    /\ job.pc = "new"
    /\ SendGoesOn(Backlog(Len(job.events)))
    /\ jobs' = "Pending"
    /\ job_notifies' = TRUE
    /\ job' = [job EXCEPT !.pc = "start",
                          !.events = Append(@, JobStatusChanged("Pending"))]
    /\ UNCHANGED <<notify_calls, waiters, item_vars, reg_vars>>

RunJobStartWithoutEvent ==
    /\ job.pc = "start"
    /\ jobs' = "Running"
    /\ job' = [job EXCEPT !.pc = "inputs"]
    /\ UNCHANGED <<job_notifies, notify_calls, waiters, item_vars, reg_vars>>

\* run_job: jobs.insert(Running), JobStatusChanged(Running)
RunJobStart ==
    /\ job.pc = "start"
    /\ SendGoesOn(Backlog(Len(job.events)))
    /\ jobs' = "Running"
    /\ job' = [job EXCEPT !.pc = "inputs",
                          !.events = Append(@, JobStatusChanged("Running"))]
    /\ UNCHANGED <<job_notifies, notify_calls, waiters, item_vars, reg_vars>>

\* run_job: one turn of `for input in inputs`: best_resolver, resolve, one item per draft
ResolveInput(resolve_ok) ==
    /\ job.pc = "inputs"
    /\ job.next_input <= Len(job.inputs)
    /\ SendGoesOn(Backlog(Len(job.events)))
    /\ LET k == job.next_input
           resolver == best_resolver(ScoresOf(job.inputs[k]))
       IN  job' = IF ~IsSome(resolver)
                  THEN [job EXCEPT !.next_input = k + 1, !.any_failed = TRUE,
                                   !.no_resolver = TRUE,
                                   !.events = Append(@, Error(k, "resolve"))]
                  ELSE IF resolve_ok
                  THEN [job EXCEPT !.next_input = k + 1, !.items = Append(@, k),
                                   !.resolved = @ \cup {k},
                                   !.events = @ \o <<Info(k, "resolve"), ItemAdded(k)>>]
                  ELSE [job EXCEPT !.next_input = k + 1, !.any_failed = TRUE,
                                   !.resolve_err = TRUE,
                                   !.events = @ \o <<Info(k, "resolve"),
                                                     Error(k, "resolve")>>]
    /\ UNCHANGED <<jobs, job_notifies, notify_calls, waiters, item_vars, reg_vars>>

\* run_job: the inputs are exhausted, `for mut item in items` begins
InputsDone ==
    /\ job.pc = "inputs"
    /\ job.next_input > Len(job.inputs)
    /\ job' = [job EXCEPT !.pc = "items"]
    /\ UNCHANGED <<jobs, job_notifies, notify_calls, waiters, item_vars, reg_vars>>

\* Where a call of download_item stops: it returns Ok ("none"), or Err from a call of its
\* own before Assembling ("call"), from a fragment task ("fragment"), or from verify or
\* rename after Assembling ("assembling")
FailurePoints == {"none", "call", "fragment", "assembling"}

\* download_item by the rtype of the item's resource: what it can do and the events it sends
\* (its Info events are left out)
ItemCanDo(rtype, failed_at, n) ==
    IF rtype \in SingleShotTypes THEN n = 0 /\ failed_at \in {"none", "call"}
    ELSE IF ~IsSome(driver_for(rtype)) THEN n = 0 /\ failed_at = "call"
    ELSE TRUE

ItemEventsAssemblingEarly(item, failed_at, n, fragmented) ==
    <<ItemStatusChanged(item, "Downloading")>>
    \o (IF fragmented THEN <<ItemStatusChanged(item, "Assembling")>> ELSE <<>>)
    \o FragmentEvents(item, n)
    \o (IF failed_at = "fragment" THEN <<Error(item, "download_fragment")>> ELSE <<>>)

ItemEventsSent(item, failed_at, n, fragmented) ==
    <<ItemStatusChanged(item, "Downloading")>>
    \o FragmentEvents(item, n)
    \o (IF failed_at = "fragment" THEN <<Error(item, "download_fragment")>> ELSE <<>>)
    \o (IF fragmented /\ failed_at \in {"none", "assembling"}
        THEN <<ItemStatusChanged(item, "Assembling")>> ELSE <<>>)

DownloadItemStopsAtFailure(failed_at, n) ==
    /\ job.pc = "items"
    /\ job.next_item <= Len(job.items)
    /\ SendGoesOn(Backlog(Len(job.events)))
    /\ LET item == job.items[job.next_item]
           rtype == ResourceOf(job.inputs[item])
           sent == ItemEventsSent(item, failed_at, n, rtype \notin SingleShotTypes)
       IN  /\ ItemCanDo(rtype, failed_at, n)
           /\ job' = IF failed_at = "none"
                  THEN [job EXCEPT !.next_item = @ + 1, !.items_ok = @ + 1,
                                   !.events = @ \o sent
                                                \o <<ItemStatusChanged(item, "Done")>>]
                  ELSE [job EXCEPT !.next_item = Len(job.items) + 1, !.any_failed = TRUE,
                                   !.item_err = TRUE,
                                   !.no_driver = @ \/ ~IsSome(driver_for(rtype)),
                                   !.events = @ \o sent
                                                \o <<Error(item, "item"),
                                                     ItemStatusChanged(item, "Failed")>>]
    /\ UNCHANGED <<jobs, job_notifies, notify_calls, waiters, item_vars, reg_vars>>

\* run_job: one turn of `for mut item in items`: download_item sends
\* ItemStatusChanged(Downloading), completes n fragments and returns Ok or Err;
\* run_job sends ItemStatusChanged(Done), or Error and ItemStatusChanged(Failed)
DownloadItem(failed_at, n) ==
    /\ job.pc = "items"
    /\ job.next_item <= Len(job.items)
    /\ SendGoesOn(Backlog(Len(job.events)))
    /\ LET item == job.items[job.next_item]
           rtype == ResourceOf(job.inputs[item])
           sent == ItemEventsSent(item, failed_at, n, rtype \notin SingleShotTypes)
       IN  /\ ItemCanDo(rtype, failed_at, n)
           /\ job' = IF failed_at = "none"
                  THEN [job EXCEPT !.next_item = @ + 1, !.items_ok = @ + 1,
                                   !.events = @ \o sent
                                                \o <<ItemStatusChanged(item, "Done")>>]
                  ELSE [job EXCEPT !.next_item = @ + 1, !.any_failed = TRUE,
                                   !.item_err = TRUE,
                                   !.no_driver = @ \/ ~IsSome(driver_for(rtype)),
                                   !.events = @ \o sent
                                                \o <<Error(item, "item"),
                                                     ItemStatusChanged(item, "Failed")>>]
    /\ UNCHANGED <<jobs, job_notifies, notify_calls, waiters, item_vars, reg_vars>>

\* run_job: jobs.insert(Failed or Completed), JobStatusChanged(final)
SetFinalStatus ==
    /\ job.pc = "items"
    /\ job.next_item > Len(job.items)
    /\ SendGoesOn(Backlog(Len(job.events)))
    /\ jobs' = FinalStatus(job.any_failed)
    /\ job' = [job EXCEPT !.pc = "remove",
                          !.events = Append(@, JobStatusChanged(FinalStatus(job.any_failed)))]
    /\ UNCHANGED <<job_notifies, notify_calls, waiters, item_vars, reg_vars>>

RemoveNotifierAndJob ==
    /\ job.pc = "remove"
    /\ job_notifies' = FALSE
    /\ jobs' = "none"
    /\ job' = [job EXCEPT !.pc = "notify"]
    /\ UNCHANGED <<notify_calls, waiters, item_vars, reg_vars>>

\* run_job: job_notifies.remove(&job_id)
RemoveNotifier ==
    /\ job.pc = "remove"
    /\ job_notifies' = FALSE
    /\ job' = [job EXCEPT !.pc = "notify"]
    /\ UNCHANGED <<jobs, notify_calls, waiters, item_vars, reg_vars>>

\* run_job: notify.notify_waiters(): wakes the Notified futures that exist now, stores no permit
NotifyWaiters ==
    /\ job.pc = "notify"
    /\ notify_calls' = notify_calls + 1
    /\ job' = [job EXCEPT !.pc = "done"]
    /\ UNCHANGED <<jobs, job_notifies, waiters, item_vars, reg_vars>>

\* wait_job: job_notifies.lock().get(&job_id).cloned(); return at once on None.
\* The id comes from add_and_start, so the call is made after it returned.
WaitLookup(w) ==
    /\ job.pc # "new"
    /\ waiters[w].pc = "idle"
    /\ waiters' = [waiters EXCEPT ![w].pc = IF job_notifies THEN "found" ELSE "returned"]
    /\ UNCHANGED <<jobs, job_notifies, notify_calls, job, item_vars, reg_vars>>

\* wait_job: n.notified() creates the Notified future, which sees the notify_waiters
\* calls made from now on
WaitNotified(w) ==
    /\ waiters[w].pc = "found"
    /\ waiters' = [waiters EXCEPT ![w] = [pc |-> "waiting", seen |-> notify_calls]]
    /\ UNCHANGED <<jobs, job_notifies, notify_calls, job, item_vars, reg_vars>>

WaitWakeSpurious(w) ==
    /\ waiters[w].pc = "waiting"
    /\ waiters' = [waiters EXCEPT ![w] = [pc |-> "returned", seen |-> 0]]
    /\ UNCHANGED <<jobs, job_notifies, notify_calls, job, item_vars, reg_vars>>

\* wait_job: .await completes once notify_waiters was called after the future was created
WaitWake(w) ==
    /\ waiters[w].pc = "waiting"
    /\ notify_calls > waiters[w].seen
    /\ waiters' = [waiters EXCEPT ![w] = [pc |-> "returned", seen |-> 0]]
    /\ UNCHANGED <<jobs, job_notifies, notify_calls, job, item_vars, reg_vars>>

RECURSIVE SeqsUpTo(_, _)
SeqsUpTo(S, n) == IF n = 0 THEN {<<>>} ELSE SeqsUpTo(S, n - 1) \cup [1..n -> S]

\* An engine with no job yet, and the inputs add_and_start will be given
NewJob ==
    /\ jobs = "none"
    /\ job_notifies = FALSE
    /\ notify_calls = 0
    /\ job \in [pc : {"new"}, inputs : SeqsUpTo(LinkKinds, MaxInputs), next_input : {1},
                items : {<<>>}, next_item : {1}, any_failed : {FALSE},
                no_resolver : {FALSE}, resolve_err : {FALSE}, item_err : {FALSE},
                no_driver : {FALSE},
                items_ok : {0}, resolved : {{}}, events : {<<>>}]
    /\ waiters = [w \in Waiters |-> [pc |-> "idle", seen |-> 0]]

JobInit ==
    /\ NewJob
    /\ ItemInit
    /\ RegistryIdle

\* The job task, which the runtime keeps scheduling once it is spawned
RunJob ==
    \/ RunJobStart
    \/ \E resolve_ok \in BOOLEAN : ResolveInput(resolve_ok)
    \/ InputsDone
    \/ \E failed_at \in FailurePoints, n \in 0..MaxFragEvents : DownloadItem(failed_at, n)
    \/ SetFinalStatus
    \/ RemoveNotifier
    \/ NotifyWaiters

\* A caller that is inside wait_job goes on
WaitJob(w) == WaitNotified(w) \/ WaitWake(w)

JobNext ==
    \/ AddAndStart
    \/ RunJob
    \/ \E w \in Waiters : WaitLookup(w)
    \/ \E w \in Waiters : WaitJob(w)

JobSpec ==
    /\ JobInit
    /\ [][JobNext]_vars
    /\ WF_vars(RunJob)
    /\ \A w \in Waiters : WF_vars(WaitJob(w))

\* ---------------------------------------------------------- HTTP driver
MaxRetries == 2      \* DriverContext.retries
BackoffSet == {0, 100}
StatusSet == {200, 204, 206, 304, 404, 408, 416, 429, 500, 503}

\* StatusCode::is_success, StatusCode::is_server_error
is_success(status) == 200 <= status /\ status <= 299
is_server_error(status) == 500 <= status /\ status <= 599

ShouldRetryServerErrorsOnly(status) == is_server_error(status)

\* HttpDriver::should_retry_status
should_retry_status(status) == status = 429 \/ status = 408 \/ is_server_error(status)

\* 2^n
RECURSIVE Pow2(_)
Pow2(n) == IF n = 0 THEN 1 ELSE 2 * Pow2(n - 1)

\* An unsigned machine integer (u64 retry_backoff_ms, u32 attempt) is the set of the
\* positions of its 1 bits, so that every value of its width can be written down
U64Bits == 0..63
U64Max == U64Bits
RECURSIVE BitsFrom(_, _)
BitsFrom(n, i) ==
    IF n = 0 THEN {}
    ELSE (IF n % 2 = 1 THEN {i} ELSE {}) \cup BitsFrom(n \div 2, i + 1)
Bits(n) == BitsFrom(n, 0)
RECURSIVE IntOf(_)
IntOf(a) == IF a = {} THEN 0 ELSE LET i == CHOOSE x \in a : TRUE
                                  IN  Pow2(i) + IntOf(a \ {i})

\* u64::max(1)
Max1(a) == IF a = {} THEN {0} ELSE a

\* u32::min(16), as a shift count
Min16(a) == IF \E i \in a : i >= 5 THEN 16 ELSE Min(IntOf(a), 16)

WrappingShl(a, shift) == {i + shift : i \in a} \cap U64Bits

\* base.saturating_mul(1u64 << shift): u64::MAX when the product does not fit
SaturatingShl(a, shift) ==
    IF \E i \in a : i + shift > 63 THEN U64Max ELSE {i + shift : i \in a}

\* u64::min(30_000), as a number of milliseconds
Min30000(a) == IF \E i \in a : i >= 15 THEN 30000 ELSE Min(IntOf(a), 30000)

\* HttpDriver::sleep_backoff(ctx, attempt): the milliseconds slept
sleep_backoff(retry_backoff_ms, attempt) ==
    LET base == Max1(retry_backoff_ms)
        shift == Min16(attempt)
    IN  Min30000(SaturatingShl(base, shift))

\* What one request meets: send() fails (timeout, connection), or a response with a
\* status whose body can be read or not
Outcomes ==
    {[kind |-> "send_err", status |-> 0, body_ok |-> FALSE]}
        \cup [kind : {"response"}, status : StatusSet, body_ok : BOOLEAN]

\* anyhow::Result<Bytes> of the driver calls
OkBytes == [ok |-> TRUE, err |-> "", code |-> 0, body |-> TRUE]
Err(err, code, body) == [ok |-> FALSE, err |-> err, code |-> code, body |-> body]
Return(result) == [next |-> "return", value |-> result]
Continue(last_err) == [next |-> "continue", value |-> last_err]

RangeAttemptTakes200AsBytes(o) ==
    IF o.kind = "send_err" THEN Continue(Err("Network", 0, FALSE))
    ELSE IF is_success(o.status) /\ o.status # 204
         THEN Return(IF o.body_ok THEN OkBytes ELSE Err("Network", 0, FALSE))
    ELSE IF o.status = 416 \/ o.status = 204 THEN Return(Err("RangeNotSupported", 0, FALSE))
    ELSE IF should_retry_status(o.status) THEN Continue(Err("Status", o.status, FALSE))
    ELSE Return(Err("Status", o.status, FALSE))

\* download_range: one turn of the attempt loop after the backoff
RangeAttempt(o) ==
    IF o.kind = "send_err" THEN Continue(Err("Network", 0, FALSE))
    ELSE IF o.status = 206
         THEN Return(IF o.body_ok THEN OkBytes ELSE Err("Network", 0, FALSE))
    ELSE IF o.status = 200
         THEN Return(IF o.body_ok THEN Err("RangeIgnoredFull", 0, TRUE)
                     ELSE Err("Network", 0, FALSE))
    ELSE IF o.status = 416 THEN Return(Err("RangeNotSupported", 0, FALSE))
    ELSE IF is_success(o.status) THEN Return(Err("RangeNotSupported", 0, FALSE))
    ELSE IF should_retry_status(o.status) THEN Continue(Err("Status", o.status, FALSE))
    ELSE Return(Err("Status", o.status, FALSE))

\* download_all: one turn of the attempt loop after the backoff
AllAttempt(o) ==
    IF o.kind = "send_err" THEN Continue(Err("Network", 0, FALSE))
    ELSE IF is_success(o.status)
         THEN Return(IF o.body_ok THEN OkBytes ELSE Err("Network", 0, FALSE))
    ELSE IF should_retry_status(o.status) THEN Continue(Err("Status", o.status, FALSE))
    ELSE Return(Err("Status", o.status, FALSE))

\* download_range / download_all is called: last_err = None, the loop starts at attempt 0
HttpCall(fn, retries, retry_backoff_ms) ==
    /\ http = NoCall
    /\ http' = [fn |-> fn, pc |-> "loop", retries |-> retries,
                retry_backoff_ms |-> retry_backoff_ms, attempt |-> 0, last_err |-> None,
                requests |-> 0, sleeps |-> <<>>, outcomes |-> <<>>, result |-> None]
    /\ UNCHANGED <<scores, best, more_vars, item_vars, job_vars>>

\* for attempt in 0..=ctx.retries: backoff when attempt > 0, one request, its outcome
Attempt(o) ==
    /\ http.fn \in {"download_range", "download_all"}
    /\ http.pc = "loop"
    /\ http.attempt <= http.retries
    /\ LET h == [http EXCEPT
                    !.sleeps = IF http.attempt > 0
                               THEN Append(@, sleep_backoff(Bits(http.retry_backoff_ms),
                                                            Bits(http.attempt - 1)))
                               ELSE @,
                    !.requests = @ + 1,
                    !.outcomes = Append(@, o)]
           r == IF http.fn = "download_range" THEN RangeAttempt(o) ELSE AllAttempt(o)
       IN  http' = IF r.next = "continue"
                   THEN [h EXCEPT !.attempt = @ + 1, !.last_err = Some(r.value)]
                   ELSE [h EXCEPT !.pc = "returned", !.result = Some(r.value)]
    /\ UNCHANGED <<scores, best, more_vars, item_vars, job_vars>>

\* The loop is over: Err(last_err.unwrap_or_else(|| Status(REQUEST_TIMEOUT)))
Exhausted ==
    /\ http.fn \in {"download_range", "download_all"}
    /\ http.pc = "loop"
    /\ http.attempt > http.retries
    /\ http' = [http EXCEPT !.pc = "returned",
                            !.result = Some(IF IsSome(http.last_err) THEN Unwrap(http.last_err)
                                            ELSE Err("Status", 408, FALSE))]
    /\ UNCHANGED <<scores, best, more_vars, item_vars, job_vars>>

\* A header of a response: absent, present with a value that does not parse, or a number
Headers == {[present |-> FALSE, valid |-> FALSE, value |-> 0],
            [present |-> TRUE, valid |-> FALSE, value |-> 0],
            [present |-> TRUE, valid |-> TRUE, value |-> 0],
            [present |-> TRUE, valid |-> TRUE, value |-> 3]}

\* probe: Content-Length of the HEAD response, .to_str().ok().parse::<u64>().ok()
ParseContentLength(h) == IF h.present /\ h.valid THEN Some(h.value) ELSE None

ProbeResultTrustsHint(content_length, accept_ranges, status, content_range) ==
    [total |-> ParseContentLength(content_length),
     supports_ranges |-> accept_ranges \/ (status = 206 /\ content_range)]

\* probe: the pair returned from the HEAD response (Content-Length; the Accept-Ranges
\* hint is computed and dropped) and the response of GET bytes=0-0
ProbeResult(content_length, accept_ranges, status, content_range) ==
    [total |-> ParseContentLength(content_length),
     supports_ranges |-> status = 206 /\ content_range]

\* HttpDriver::probe: HEAD, then GET with Range: bytes=0-0; `?` on either send
Probe(head_ok, content_length, accept_ranges, get_ok, status, content_range) ==
    /\ http = NoCall
    /\ http' = [fn |-> "probe", pc |-> "returned",
                head |-> [ok |-> head_ok, content_length |-> content_length,
                          accept_ranges |-> accept_ranges],
                test |-> [ok |-> head_ok /\ get_ok, status |-> status,
                          content_range |-> content_range],
                requests |-> IF head_ok THEN 2 ELSE 1,
                result |-> IF head_ok /\ get_ok
                           THEN Some(ProbeResult(content_length, accept_ranges, status,
                                                   content_range))
                           ELSE None]
    /\ UNCHANGED <<scores, best, more_vars, item_vars, job_vars>>

HttpInit ==
    /\ http = NoCall
    /\ MoreIdle
    /\ scores = <<>>
    /\ best = None
    /\ ItemInit
    /\ JobIdle

HttpNext ==
    \/ \E fn \in {"download_range", "download_all"}, retries \in 0..MaxRetries,
          retry_backoff_ms \in BackoffSet : HttpCall(fn, retries, retry_backoff_ms)
    \/ \E o \in Outcomes : Attempt(o)
    \/ Exhausted
    \/ \E head_ok \in BOOLEAN, content_length \in Headers, accept_ranges \in BOOLEAN,
          get_ok \in BOOLEAN, status \in StatusSet, content_range \in BOOLEAN :
            Probe(head_ok, content_length, accept_ranges, get_ok, status, content_range)

HttpSpec == HttpInit /\ [][HttpNext]_vars

\* ------------------------------------------------- store calls on their own
\* The totals, range supports and chunk sizes a run can hand to the store
Totals == {None, Some(0), Some(MaxTotal)}
ChunkSizes == MinChunk..MaxChunk

\* The range lists passed to ensure_fragments_for_ranges: what download_item plans, and
\* the empty list
RangeLists ==
    {<<>>} \cup {RangesToEnsure(t, sr, c) : t \in Totals, sr \in BOOLEAN, c \in ChunkSizes}

\* The fragment rows a store can hold for planned ranges: every state the code writes
StoredFragments(ranges) ==
    {[k \in 1..Len(ranges) |->
         [offset |-> ranges[k].offset, len |-> ranges[k].len, state |-> st[k]]] :
     st \in [1..Len(ranges) -> {Missing, Downloading, Done}]}

NoStoreCall == [op |-> "none", ranges |-> <<>>, chunk_size |-> 0, total_size |-> None,
                supports_ranges |-> FALSE, before_items |-> <<>>,
                before_fragments |-> <<>>, returned |-> NoRec]

\* store.upsert_item(uri, target, partial, chunk_size, total_size, supports_ranges)
StoreUpsertItem(chunk_size, total_size, supports_ranges) ==
    /\ items' = upsert_item(items, chunk_size, total_size, supports_ranges)
    /\ hist' = [last |-> [NoStoreCall EXCEPT !.op = "upsert_item",
                                             !.chunk_size = chunk_size,
                                             !.total_size = total_size,
                                             !.supports_ranges = supports_ranges,
                                             !.before_items = items,
                                             !.before_fragments = fragments,
                                             !.returned = get_item(items')],
                prev |-> [op |-> hist.last.op, ranges |-> hist.last.ranges]]
    /\ UNCHANGED <<fragments, fs_vars, pc, engine, probe, item_rec, to_insert, db_frags,
                   pending, tasks, downloaded, completed_frags, item_status, outside_item>>

\* store.ensure_fragments_for_ranges(item_db_id, ranges) for the item of the store
StoreEnsureFragments(ranges) ==
    /\ items # <<>>
    /\ fragments' = ensure_fragments_for_ranges(fragments, ranges)
    /\ hist' = [last |-> [NoStoreCall EXCEPT !.op = "ensure_fragments_for_ranges",
                                             !.ranges = ranges,
                                             !.before_items = items,
                                             !.before_fragments = fragments],
                prev |-> [op |-> hist.last.op, ranges |-> hist.last.ranges]]
    /\ UNCHANGED <<items, fs_vars, pc, engine, probe, item_rec, to_insert, db_frags,
                   pending, tasks, downloaded, completed_frags, item_status, outside_item>>

\* An empty store, or the item row of a run with the fragments planned for it (or none
\* yet), in any state the code writes
StoreInit ==
    /\ \/ items = <<>> /\ fragments = <<>>
       \/ \E t \in Totals, sr \in BOOLEAN, c \in ChunkSizes, d \in {0, MaxTotal} :
             /\ items = AddDownloadedBytes(upsert_item(<<>>, c, t, sr /\ IsSome(t)), d)
             /\ fragments \in {<<>>} \cup StoredFragments(RangesToEnsure(t, sr, c))
    /\ hist = [last |-> NoStoreCall, prev |-> [op |-> "none", ranges |-> <<>>]]
    /\ RunIdle
    /\ JobIdle
    /\ RegistryIdle

StoreNext ==
    \/ \E c \in ChunkSizes, t \in Totals, sr \in BOOLEAN : StoreUpsertItem(c, t, sr)
    \/ \E ranges \in RangeLists : StoreEnsureFragments(ranges)

StoreSpec == StoreInit /\ [][StoreNext]_vars

\* ------------------------------------------------- plan_ranges on its own
MaxPlanTotal == 12   \* totals handed to plan_ranges
MaxPlanChunk == 5    \* chunk sizes handed to plan_ranges

\* plan_ranges(total, chunk_size) is called
PlanRanges ==
    /\ hist.frags = None
    /\ hist' = [hist EXCEPT !.frags = Some(plan_ranges(hist.total, hist.chunk_size))]
    /\ UNCHANGED <<store_vars, fs_vars, pc, engine, probe, item_rec, to_insert, db_frags,
                   pending, tasks, downloaded, completed_frags, item_status, outside_item>>

PlannerInit ==
    /\ hist \in [total : 0..MaxPlanTotal, chunk_size : 1..MaxPlanChunk, frags : {None}]
    /\ items = <<>>
    /\ fragments = <<>>
    /\ RunIdle
    /\ JobIdle
    /\ RegistryIdle

PlannerNext == PlanRanges

PlannerSpec == PlannerInit /\ [][PlannerNext]_vars

\* ------------------------------------------------ assembler on its own
MaxWriters == 2      \* concurrent callers of write_at on one Assembler
MaxWriteOffset == 2  \* largest offset handed to write_at
MaxWriteLen == 2     \* most bytes handed to write_at

Writers == 1..MaxWriters

\* The bytes caller w hands to write_at: told apart from every other caller's and from a hole
WriterData(w, len) == [i \in 1..len |-> 10 * w + i]

MutexAlwaysFree(lock) == TRUE

\* tokio::sync::Mutex::lock returns the guard only when nobody holds it
MutexFree(lock) == lock = 0

\* Assembler::create: open, Mutex::new(file), set_len when the total is known
AsmCreate(total_size) ==
    /\ ~asm.open
    /\ partial_file' = File(IF IsSome(total_size)
                            THEN SetLen(partial_file.data, Unwrap(total_size))
                            ELSE partial_file.data)
    /\ asm' = [asm EXCEPT !.open = TRUE]
    /\ UNCHANGED <<store_vars, target_file, run_vars, job_vars, scores, best, http, chan, cli>>

\* write_at: let mut f = self.file.lock().await
WriteAtLock(w) ==
    /\ asm.open
    /\ asm.writers[w].pc = "call"
    /\ MutexFree(asm.lock)
    /\ asm' = [asm EXCEPT !.lock = w, !.writers[w].pc = "seek"]
    /\ UNCHANGED <<item_vars, job_vars, scores, best, http, chan, cli>>

\* write_at: f.seek(SeekFrom::Start(offset)).await?  (the guard is dropped on Err)
WriteAtSeek(w, ok) ==
    /\ asm.open
    /\ asm.writers[w].pc = "seek"
    /\ asm' = IF ok
              THEN [asm EXCEPT !.cursor = asm.writers[w].offset, !.writers[w].pc = "write"]
              ELSE [asm EXCEPT !.lock = 0, !.writers[w].pc = "err"]
    /\ UNCHANGED <<item_vars, job_vars, scores, best, http, chan, cli>>

\* write_at: f.write_all(data).await?; Ok(()): n bytes reach the file at the cursor,
\* all of them unless the write fails; the guard is dropped
WriteAtWrite(w, n) ==
    /\ asm.open
    /\ asm.writers[w].pc = "write"
    /\ n <= Len(asm.writers[w].data)
    /\ partial_file' = File(WriteAt(partial_file.data, asm.cursor,
                                    SubSeq(asm.writers[w].data, 1, n)))
    /\ asm' = [asm EXCEPT !.cursor = @ + n, !.lock = 0,
                          !.writers[w].pc = IF n = Len(asm.writers[w].data)
                                            THEN "ok" ELSE "err"]
    /\ UNCHANGED <<store_vars, target_file, run_vars, job_vars, scores, best, http, chan, cli>>

AssemblerInit ==
    /\ \E args \in [Writers -> (0..MaxWriteOffset) \X (1..MaxWriteLen)] :
          asm = [open |-> FALSE, lock |-> 0, cursor |-> 0,
                 writers |-> [w \in Writers |->
                                 [offset |-> args[w][1], data |-> WriterData(w, args[w][2]),
                                  pc |-> "call"]]]
    /\ chan = [r \in Receivers |-> NoReceiver]
    /\ cli = NoCli
    /\ scores = <<>>
    /\ best = None
    /\ http = NoCall
    /\ ItemInit
    /\ JobIdle

AssemblerNext ==
    \/ \E total_size \in {None, Some(MaxTotal)} : AsmCreate(total_size)
    \/ \E w \in Writers : WriteAtLock(w)
    \/ \E w \in Writers, ok \in BOOLEAN : WriteAtSeek(w, ok)
    \/ \E w \in Writers, n \in 0..MaxWriteLen : WriteAtWrite(w, n)

AssemblerSpec == AssemblerInit /\ [][AssemblerNext]_vars

\* ------------------------------------------- the job and its subscribers
\* The events sent so far: the position of the channel's tail
SentCount == Len(job.events)

\* Engine::subscribe: event_tx.subscribe(), a receiver that sees the events sent from now on
Subscribe(r) ==
    /\ chan[r].state = "closed"
    /\ chan' = [chan EXCEPT ![r] = [state |-> "open", next |-> SentCount + 1,
                                    late |-> SentCount > 0, lagged |-> FALSE]]
    /\ UNCHANGED <<item_vars, job_vars, scores, best, http, asm, cli>>

\* rx.recv().await with an event waiting: Err(Lagged) and a skip forward to the oldest
\* retained event when the next one was overwritten, else the next event
Recv(r) ==
    /\ chan[r].state = "open"
    /\ chan[r].next <= SentCount
    /\ chan' = IF chan[r].next < SentCount - ChannelCapacity + 1
               THEN [chan EXCEPT ![r].next = SentCount - ChannelCapacity + 1,
                                 ![r].lagged = TRUE]
               ELSE [chan EXCEPT ![r].next = @ + 1]
    /\ UNCHANGED <<item_vars, job_vars, scores, best, http, asm, cli>>

\* The receiver is dropped (the task that owns it ends)
DropReceiver(r) ==
    /\ chan[r].state = "open"
    /\ chan' = [chan EXCEPT ![r] = NoReceiver]
    /\ UNCHANGED <<item_vars, job_vars, scores, best, http, asm, cli>>

EventInit ==
    /\ JobInit

EventNext ==
    \/ AddAndStart
    \/ RunJob
    \/ \E r \in Receivers : Subscribe(r)
    \/ \E r \in Receivers : Recv(r)
    \/ \E r \in Receivers : DropReceiver(r)

EventSpec == EventInit /\ [][EventNext]_vars

\* ------------------------------------------------- partial path on its own
MaxNameLen == 3      \* characters of a target file name

\* A file name is the sequence of its characters; the directory of target_path is left
\* out (with_extension changes the file name only)
NameChars == {"a", "b", "."}
FileNames == UNION {[1..n -> NameChars] : n \in 1..MaxNameLen} \ {<<".">>, <<".", ".">>}

\* Path::file_stem: the name up to its last dot; the whole name when it has no dot or
\* only a leading one
LastDot(name) ==
    LET dots == {i \in 1..Len(name) : name[i] = "."}
    IN  IF dots = {} THEN 0 ELSE CHOOSE i \in dots : \A j \in dots : j <= i
file_stem(name) ==
    IF LastDot(name) <= 1 THEN name ELSE SubSeq(name, 1, LastDot(name) - 1)

\* Path::with_extension(extension): the file stem, a dot, the extension
with_extension(name, extension) == file_stem(name) \o <<".", extension>>

\* download_item: partial_path = item.target_path.with_extension("partial")
partial_path(target_path) == with_extension(target_path, "partial")

\* download_item computes the partial path of two items of one output directory
PartialPaths ==
    /\ hist.partials = None
    /\ hist' = [hist EXCEPT !.partials =
                   Some([k \in 1..2 |-> partial_path(hist.targets[k])])]
    /\ UNCHANGED <<store_vars, fs_vars, pc, engine, probe, item_rec, to_insert, db_frags,
                   pending, tasks, downloaded, completed_frags, item_status, outside_item>>

PathInit ==
    /\ hist \in [targets : FileNames \X FileNames, partials : {None}]
    /\ items = <<>>
    /\ fragments = <<>>
    /\ RunIdle
    /\ JobIdle
    /\ RegistryIdle

PathNext == PartialPaths

PathSpec == PathInit /\ [][PathNext]_vars

\* ------------------------------------------------ sleep_backoff on its own
MaxAttempt == 18     \* attempts 0..MaxAttempt are all tried, beside the large ones

\* retry_backoff_ms: u64 values around every threshold of the computation
BackoffValues ==
    {Bits(n) : n \in {0, 1, 2, 3, 400, 457, 29999, 30000, 30001, 65535}}
        \cup {{31}, {32}, {47}, 0..47, {48}, {62}, {63}, U64Max \ {0}, U64Max}

\* attempt: u32 values, the small ones and the largest
AttemptValues == {Bits(n) : n \in 0..MaxAttempt} \cup {{5}, {6}, {31}, 0..31}

\* download_range / download_all: Self::sleep_backoff(ctx, attempt - 1).await
SleepBackoff ==
    /\ hist.ms = None
    /\ hist' = [hist EXCEPT !.ms = Some(sleep_backoff(hist.retry_backoff_ms, hist.attempt))]
    /\ UNCHANGED <<store_vars, fs_vars, pc, engine, probe, item_rec, to_insert, db_frags,
                   pending, tasks, downloaded, completed_frags, item_status, outside_item>>

BackoffInit ==
    /\ hist \in [retry_backoff_ms : BackoffValues, attempt : AttemptValues, ms : {None}]
    /\ items = <<>>
    /\ fragments = <<>>
    /\ RunIdle
    /\ JobIdle
    /\ RegistryIdle

BackoffNext == SleepBackoff

BackoffSpec == BackoffInit /\ [][BackoffNext]_vars

\* ------------------------------------------------- the download command
\* A JobStatusChanged event with a final status
IsFinalJobEvent(e) == e.ev = "JobStatusChanged" /\ e.status \in {"Completed", "Failed"}

\* The exit code of a process whose main returns `result`: 0 for Ok(()), 1 for Err
ExitCode(result) == IF result = "Ok" THEN 0 ELSE 1

\* main: engine.add_and_start(inputs).await?
CliAddAndStart ==
    /\ cli.pc = "main"
    /\ AddAndStart

\* main: rx = engine.subscribe(); the UI task is spawned
CliSubscribe ==
    /\ cli.pc = "main"
    /\ job.pc # "new"
    /\ chan' = [chan EXCEPT ![1] = [state |-> "open", next |-> SentCount + 1,
                                    late |-> SentCount > 0, lagged |-> FALSE]]
    /\ cli' = [cli EXCEPT !.pc = "wait_job", !.ui = "running"]
    /\ UNCHANGED <<item_vars, job_vars, scores, best, http, asm>>

\* UI task: rx.recv().await; break on Err (Lagged) and on the final JobStatusChanged
UiRecv ==
    /\ cli.ui = "running"
    /\ chan[1].next <= SentCount
    /\ IF chan[1].next < SentCount - ChannelCapacity + 1
       THEN /\ chan' = [chan EXCEPT ![1] = NoReceiver]
            /\ cli' = [cli EXCEPT !.ui = "done"]
       ELSE IF IsFinalJobEvent(job.events[chan[1].next])
       THEN /\ chan' = [chan EXCEPT ![1] = NoReceiver]
            /\ cli' = [cli EXCEPT !.ui = "done"]
       ELSE /\ chan' = [chan EXCEPT ![1].next = @ + 1]
            /\ cli' = cli
    /\ UNCHANGED <<item_vars, job_vars, scores, best, http, asm>>

\* main: engine.wait_job(job_id).await
CliWaitJob ==
    /\ cli.pc = "wait_job"
    /\ WaitLookup(1) \/ WaitJob(1)

\* main: ui_task.await; println!("Job finished"); Ok(())
CliExit ==
    /\ cli.pc = "wait_job"
    /\ waiters[1].pc = "returned"
    /\ cli.ui = "done"
    /\ cli' = [cli EXCEPT !.pc = "exited", !.exit_code = Some(ExitCode("Ok"))]
    /\ UNCHANGED <<item_vars, job_vars, scores, best, http, asm, chan>>

CliInit ==
    /\ NewJob
    /\ ItemInit
    /\ scores = <<>>
    /\ best = None
    /\ http = NoCall
    /\ asm = NoAssembler
    /\ chan = [r \in Receivers |-> NoReceiver]
    /\ cli = [pc |-> "main", ui |-> "none", exit_code |-> None]

CliNext ==
    \/ CliAddAndStart
    \/ RunJob
    \/ CliSubscribe
    \/ UiRecv
    \/ CliWaitJob
    \/ CliExit

CliSpec == CliInit /\ [][CliNext]_vars

\* ------------------------------------- two jobs that resolve to one item
MaxJobs == 2         \* jobs of one engine that download the same item concurrently

Jobs == 1..MaxJobs

\* download_item of job j: store.upsert_item(...).await? returns the item's record
SharedUpsertItem(j) ==
    /\ hist.jobs[j].pc = "upsert"
    /\ items' = upsert_item(items, hist.chunk_size, hist.total,
                            hist.supports_ranges /\ IsSome(hist.total))
    /\ hist' = [hist EXCEPT !.jobs[j].pc = "count"]
    /\ UNCHANGED <<fragments, fs_vars, pc, engine, probe, item_rec, to_insert, db_frags,
                   pending, tasks, downloaded, completed_frags, item_status, outside_item>>

\* ensure_fragments_for_ranges of job j: SELECT COUNT(1) ...; `if existing > 0 { return Ok(()) }`
SharedCountFragments(j) ==
    /\ hist.jobs[j].pc = "count"
    /\ hist' = IF Len(fragments) > 0
               THEN [hist EXCEPT !.jobs[j].pc = "done"]
               ELSE [hist EXCEPT !.jobs[j] =
                        [pc |-> "insert",
                         left |-> MissingRows(RangesToEnsure(hist.total, hist.supports_ranges,
                                                             hist.chunk_size))]]
    /\ UNCHANGED <<store_vars, fs_vars, pc, engine, probe, item_rec, to_insert, db_frags,
                   pending, tasks, downloaded, completed_frags, item_status, outside_item>>

\* ensure_fragments_for_ranges of job j: one turn of `for (offset, len) in ranges`, INSERT
SharedInsertFragment(j) ==
    /\ hist.jobs[j].pc = "insert"
    /\ fragments' = Append(fragments, Head(hist.jobs[j].left))
    /\ hist' = [hist EXCEPT !.jobs[j] =
                   IF Len(@.left) = 1 THEN [pc |-> "done", left |-> <<>>]
                   ELSE [pc |-> "insert", left |-> Tail(@.left)]]
    /\ UNCHANGED <<items, fs_vars, pc, engine, probe, item_rec, to_insert, db_frags,
                   pending, tasks, downloaded, completed_frags, item_status, outside_item>>

\* An empty store; every job is in download_item for the same (source_uri, target_path),
\* with the engine's chunk_size and the probe result of the resource
SharedInit ==
    /\ items = <<>> /\ fragments = <<>>
    /\ \E t \in {None} \cup {Some(n) : n \in 0..MaxTotal}, sr \in BOOLEAN, c \in ChunkSizes :
          hist = [chunk_size |-> c, total |-> t, supports_ranges |-> sr,
                  jobs |-> [j \in Jobs |-> [pc |-> "upsert", left |-> <<>>]]]
    /\ RunIdle
    /\ JobIdle
    /\ RegistryIdle

SharedNext ==
    \/ \E j \in Jobs : SharedUpsertItem(j)
    \/ \E j \in Jobs : SharedCountFragments(j)
    \/ \E j \in Jobs : SharedInsertFragment(j)

SharedSpec == SharedInit /\ [][SharedNext]_vars

\* The download command under a runtime that keeps scheduling main, the job task and the
\* UI task whenever they can take a step
CliFairSpec ==
    /\ CliInit
    /\ [][CliNext]_vars
    /\ WF_vars(CliAddAndStart)
    /\ WF_vars(RunJob)
    /\ WF_vars(CliSubscribe)
    /\ WF_vars(UiRecv)
    /\ WF_vars(CliWaitJob)
    /\ WF_vars(CliExit)

\* =================================================================== claims

\* The run of the pipeline that just ended was a restart after an interrupted run
\* (crash, or failure of a fragment task) with the same probe result and chunk size,
\* and nothing failed in it.
ResumedRunEnded ==
    /\ pc = "idle"
    /\ hist.resumed
    /\ ~hist.run_faulted
    /\ hist.result \in {"Ok", "Err"}

\* C1: a restart after an interrupted run, with the same probe result, requests from
\* the driver exactly the fragments that were not Done, never a Done one, and ends
\* with every fragment Done, the item Done and downloaded_bytes equal to the total.
C1_ResumeFetchesExactlyTheRest ==
    ResumedRunEnded =>
        /\ hist.requested = (1..Len(fragments)) \ hist.done_at_start
        /\ hist.result = "Ok"
        /\ AllDone(fragments)
        /\ IsSome(probe.total) => items[1].downloaded_bytes = Unwrap(probe.total)

\* The pipeline just succeeded (ItemStatusChanged(Done)) for an item with range support
\* and known total.
RangedItemDone ==
    /\ pc = "idle"
    /\ hist.result = "Ok"
    /\ probe.supports_ranges
    /\ IsSome(probe.total)

\* The units of file data d in [offset, offset + len)
FileRange(d, offset, len) == [i \in 1..len |-> IF offset + i <= Len(d) THEN d[offset + i] ELSE 0]

\* The interval of the file a fragment stands for: [offset, offset + len), the whole
\* file for the sentinel (0, 0).
FragmentSpan(f, file_len) == IF f.len = 0 THEN file_len ELSE f.len

\* C2: after a successful run for an item with range support and total T the target
\* file has size T and holds, at every fragment's interval, the bytes the driver
\* returned for that fragment.
C2_TargetIsConcatenationOfFragments ==
    RangedItemDone =>
        /\ target_file.exists
        /\ Len(target_file.data) = Unwrap(probe.total)
        /\ \A id \in 1..Len(fragments) :
              LET f == fragments[id]
                  span == FragmentSpan(f, Len(target_file.data))
              IN  /\ IsSome(hist.returned[id])
                  /\ Len(target_file.data) >= f.offset + span
                  /\ FileRange(target_file.data, f.offset, span) = Unwrap(hist.returned[id])

\* C3: the final status of a job is Failed exactly when an input had no resolver, a
\* resolve call failed or an item pipeline failed, Completed otherwise (a job without
\* inputs included); and a job with a resolution failure still reaches a final status.
C3_FinalStatusFailedIffAnyFailure ==
    /\ [](is_job_finished =>
            /\ jobs = "Failed" <=> (job.no_resolver \/ job.resolve_err \/ job.item_err)
            /\ jobs = "Completed" <=> ~(job.no_resolver \/ job.resolve_err \/ job.item_err))
    /\ (job.no_resolver \/ job.resolve_err) ~> is_job_finished

\* A job that failed through a resolve error alone, after it ran the item of another input.
C3_Witness ==
    /\ jobs = "Failed"
    /\ job.resolve_err /\ ~job.no_resolver /\ ~job.item_err
    /\ job.items_ok > 0

\* C4: every call of wait_job, whenever it is made, returns once the job is finished.
C4_WaitJobEventuallyReturns ==
    \A w \in Waiters : (waiters[w].pc \in {"found", "waiting"}) ~> (waiters[w].pc = "returned")

\* The first index of sc holding the maximum of sc
FirstMaximum(sc) ==
    CHOOSE i \in 1..Len(sc) :
        /\ \A j \in 1..Len(sc) : sc[j] <= sc[i]
        /\ \A j \in 1..(i - 1) : sc[j] < sc[i]

\* C5: best_resolver returns the first registered of the resolvers with the maximum
\* score, and none exactly when every resolver scores 0.
C5_FirstMaximumWins ==
    best # Unset =>
        IF \A i \in 1..Len(scores) : scores[i] = 0
        THEN best = None
        ELSE best = Some(FirstMaximum(scores))

\* The item pipeline returned an error raised by a fragment task.
FragmentTaskFailed == pc = "idle" /\ hist.result = "Err" /\ hist.interrupted

\* C6: after the item pipeline returned with the failure of a fragment task no fragment
\* is left Downloading: every fragment is Done or pending work (Missing or Bad).
C6_FailedFragmentIsPendingWork ==
    FragmentTaskFailed =>
        \A id \in 1..Len(fragments) : fragments[id].state \in {Done, Missing, Bad}

\* The fragments s, in offset order, tile [0, total): they start at 0, each starts where
\* the one before ends, the last ends at total.
Tiles(s, total) ==
    /\ s # <<>>
    /\ s[1].offset = 0
    /\ \A k \in 1..(Len(s) - 1) :
          /\ s[k].offset < s[k + 1].offset
          /\ s[k].offset + s[k].len = s[k + 1].offset
    /\ s[Len(s)].offset + s[Len(s)].len = total

\* Runs came and went without a crash or an injected error; nothing is under way.
QuietAfterRuns ==
    /\ pc = "idle"
    /\ hist.runs > 0
    /\ hist.crashes = 0
    /\ hist.faults = 0

\* C7: between runs, the fragments of an item stored with supports_ranges and total T
\* tile [0, T), whatever the earlier runs probed.
C7_RangeFragmentsCoverTotal ==
    (QuietAfterRuns /\ items # <<>> /\ items[1].supports_ranges /\ IsSome(items[1].total_size))
        => Tiles(load_fragments(fragments), Unwrap(items[1].total_size))

\* The run found fragments and a stored total that differs from the total it probed.
ProbedTotalMismatch ==
    /\ hist.had_fragments
    /\ IsSome(hist.stored_total)
    /\ IsSome(probe.total)
    /\ probe.total # hist.stored_total

\* C8: a run that probes a total different from the stored one, for an item that has
\* fragments, either re-plans the fragments for the probed total or keeps the stored
\* total in the item record, the size of the partial file and the Progress events.
C8_MismatchResetsOrKeepsStoredTotal ==
    (pc = "dispatch" /\ ProbedTotalMismatch) =>
        \/ Ranges(load_fragments(fragments)) =
              RangesToEnsure(probe.total, probe.supports_ranges, engine.chunk_size)
        \/ /\ items[1].total_size = hist.stored_total
           /\ Len(partial_file.data) = Unwrap(hist.stored_total)
           /\ ProgressTotal = hist.stored_total

\* The bytes the driver returned for the fragments that are Done
DoneBytes ==
    SumSeq([id \in 1..Len(fragments) |->
               IF fragments[id].state = Done /\ IsSome(hist.returned[id])
               THEN Len(Unwrap(hist.returned[id])) ELSE 0])

\* C9: in no store state is a fragment Done while items.downloaded_bytes lacks its bytes.
C9_DoneAndBytesChangeTogether ==
    items # <<>> => items[1].downloaded_bytes = DoneBytes

DoneLen ==
    SumSeq([id \in 1..Len(fragments) |->
               IF fragments[id].state = Done THEN fragments[id].len ELSE 0])

InFlight == IF pc = "wave" THEN DOMAIN tasks ELSE {}

Abs(n) == IF n < 0 THEN -n ELSE n

\* C10: for an item whose fragments are ranges, items.downloaded_bytes is off the sum of
\* len of the Done fragments by at most the length of one fragment in flight, and equals
\* it when no fragment task is in flight.
C10_DownloadedBytesTracksDoneFragments ==
    (items # <<>> /\ \A id \in 1..Len(fragments) : fragments[id].len > 0) =>
        LET off == Abs(items[1].downloaded_bytes - DoneLen)
        IN  /\ InFlight = {} => off = 0
            /\ off > 0 => \E i \in InFlight : off <= db_frags[i].len

\* The position in the job's events of the first event e, 0 when e was not sent
FirstSent(e) ==
    IF \E i \in 1..Len(job.events) : job.events[i] = e
    THEN CHOOSE i \in 1..Len(job.events) :
             job.events[i] = e /\ \A j \in 1..(i - 1) : job.events[j] # e
    ELSE 0
Sent(e) == FirstSent(e) > 0

\* C11: when the job is finished every input was handled (it resolved, or its resolution
\* error was reported) and the pipeline of every item of a resolved input was started,
\* whatever happened to the other inputs and items.
C11_FailureIsolation ==
    is_job_finished =>
        /\ \A k \in 1..Len(job.inputs) : k \in job.resolved \/ Sent(Error(k, "resolve"))
        /\ \A k \in job.resolved : Sent(ItemStatusChanged(k, "Downloading"))

\* An item pipeline was started after the pipeline of an earlier item had failed.
C11_Witness ==
    /\ is_job_finished
    /\ \E k1, k2 \in job.resolved :
          /\ Sent(ItemStatusChanged(k1, "Failed"))
          /\ FirstSent(ItemStatusChanged(k1, "Failed")) <
                FirstSent(ItemStatusChanged(k2, "Downloading"))

Terminal(e) == e \in {JobStatusChanged("Completed"), JobStatusChanged("Failed")}
TerminalsSent == {i \in 1..Len(job.events) : Terminal(job.events[i])}

\* C12: in the events of a job, JobStatusChanged(Running) is sent before every ItemAdded;
\* at most one terminal JobStatusChanged is sent, it is the last event of the job, and it
\* has been sent once run_job is past its final status.
C12_JobEventsOrder ==
    job.pc # "none" =>
        /\ \A i \in 1..Len(job.events) :
              job.events[i].ev = "ItemAdded" =>
                  /\ Sent(JobStatusChanged("Running"))
                  /\ FirstSent(JobStatusChanged("Running")) < i
        /\ Cardinality(TerminalsSent) <= 1
        /\ TerminalsSent \subseteq {Len(job.events)}
        /\ job.pc \in {"remove", "notify", "done"} => Cardinality(TerminalsSent) = 1

\* A finished job whose events hold an ItemAdded, a FragmentDone, a Progress and an Error.
C12_Witness ==
    /\ job.pc = "done"
    /\ TerminalsSent = {Len(job.events)}
    /\ \A ev \in {"ItemAdded", "ItemStatusChanged", "FragmentDone", "Progress", "Error"} :
          \E i \in 1..Len(job.events) : job.events[i].ev = ev

\* The statuses the claims call transient: 429, 408 and 5xx
TransientStatus(status) == status \in {429, 408} \/ status \in 500..599

LastOutcome == http.outcomes[Len(http.outcomes)]
Returned(result) == http.pc = "returned" /\ http.result = Some(result)

\* C13: download_range maps the status of the response of an attempt: 206 returns the
\* body; 200 fails with RangeIgnoredFull carrying the body; 416 and any other 2xx fail
\* with RangeNotSupported; 429, 408 and 5xx do not end the call while attempts are left;
\* any other status fails at once with Status(code); a 200 is never returned as bytes.
C13_RangeStatusMapping ==
    (http.fn = "download_range" /\ http.outcomes # <<>> /\ LastOutcome.kind = "response") =>
        LET status == LastOutcome.status
            readable == LastOutcome.body_ok
        IN  /\ (status = 206 /\ readable) => Returned(OkBytes)
            /\ (status = 200 /\ readable) => Returned(Err("RangeIgnoredFull", 0, TRUE))
            /\ status = 416 => Returned(Err("RangeNotSupported", 0, FALSE))
            /\ (status \in 200..299 /\ status \notin {200, 206}) =>
                  Returned(Err("RangeNotSupported", 0, FALSE))
            /\ TransientStatus(status) =>
                  \/ http.pc = "loop"
                  \/ Len(http.outcomes) = http.retries + 1
                        /\ Returned(Err("Status", status, FALSE))
            /\ (status \notin 200..299 /\ status # 416 /\ ~TransientStatus(status)) =>
                  Returned(Err("Status", status, FALSE))
            /\ (http.pc = "returned" /\ Unwrap(http.result).ok) => status = 206

\* A call answered 500 and then 200 with the whole body: it returned RangeIgnoredFull.
C13_Witness ==
    /\ http.fn = "download_range"
    /\ Len(http.outcomes) = 2
    /\ http.outcomes[1].kind = "response" /\ http.outcomes[1].status = 500
    /\ LastOutcome.kind = "response" /\ LastOutcome.status = 200 /\ LastOutcome.body_ok
    /\ Returned(Err("RangeIgnoredFull", 0, TRUE))

\* An outcome the claims call transient: the request failed in send(), or the response
\* has a transient status
TransientOutcome(o) == o.kind = "send_err" \/ TransientStatus(o.status)

\* The error a transient outcome leaves in last_err
ErrorOf(o) == IF o.kind = "send_err" THEN Err("Network", 0, FALSE)
              ELSE Err("Status", o.status, FALSE)

Downloads == http.fn \in {"download_range", "download_all"}

\* C14: a call of download_range or download_all sends at most retries+1 requests; only
\* transient outcomes are followed by another attempt, each after exactly one backoff
\* sleep; an outcome that is not transient ends the call where it occurs; a transient
\* outcome with attempts left does not end it; after retries+1 transient outcomes the
\* call fails with the last error.
C14_AtMostRetriesPlusOneAttempts ==
    Downloads =>
        /\ http.requests = Len(http.outcomes)
        /\ http.requests <= http.retries + 1
        /\ Len(http.sleeps) = Max(http.requests - 1, 0)
        /\ \A i \in 1..(Len(http.outcomes) - 1) : TransientOutcome(http.outcomes[i])
        /\ (http.outcomes # <<>> /\ ~TransientOutcome(LastOutcome)) => http.pc = "returned"
        /\ (http.outcomes # <<>> /\ TransientOutcome(LastOutcome)
                /\ http.requests < http.retries + 1) => http.pc = "loop"
        /\ (http.pc = "returned" /\ TransientOutcome(LastOutcome)) =>
              /\ http.requests = http.retries + 1
              /\ http.result = Some(ErrorOf(LastOutcome))

\* retries = 2 and the responses 500, 500, 206: the call succeeds on the third request,
\* after two backoff sleeps.
C14_Witness ==
    /\ Downloads
    /\ http.retries = 2
    /\ Len(http.outcomes) = 3
    /\ \A i \in 1..2 : http.outcomes[i].kind = "response" /\ http.outcomes[i].status = 500
    /\ LastOutcome.kind = "response" /\ LastOutcome.status = 206
    /\ Returned(OkBytes)
    /\ http.requests = 3
    /\ http.sleeps = <<100, 200>>

\* The call returned a transient failure: a network error, or a transient status
TransientFailureReturned ==
    /\ Downloads
    /\ http.pc = "returned"
    /\ LET r == Unwrap(http.result)
       IN  /\ ~r.ok
           /\ r.err = "Network" \/ (r.err = "Status" /\ TransientStatus(r.code))

\* C15: download_range and download_all return a transient failure only after retries+1
\* attempts.
C15_TransientFailureOnlyAfterAllAttempts ==
    TransientFailureReturned => http.requests = http.retries + 1

ProbeReturnedOk == http.fn = "probe" /\ IsSome(http.result)

\* C16: probe returns supports_ranges = TRUE exactly when the test GET with
\* Range: bytes=0-0 is answered 206 with a Content-Range header, whatever the
\* Accept-Ranges header of the HEAD response says.
C16_ProbeConfirmsRangesByTestGet ==
    ProbeReturnedOk =>
        (Unwrap(http.result).supports_ranges
            <=> (http.test.status = 206 /\ http.test.content_range))

\* The HEAD response advertises Accept-Ranges: bytes, the test GET is answered 200:
\* probed as supports_ranges = FALSE.
C16_Witness ==
    /\ ProbeReturnedOk
    /\ http.head.accept_ranges
    /\ http.test.status = 200
    /\ ~Unwrap(http.result).supports_ranges

Sentinel == <<[offset |-> 0, len |-> 0]>>
ProbeSaysRanges == probe.supports_ranges /\ IsSome(probe.total)

\* C17: a run that finds no fragment stored persists the ranges of plan_ranges exactly
\* when the probe returned supports_ranges with a known total, and the one sentinel (0,0)
\* otherwise, a failed probe included; the sentinel is fetched by download_all alone, and
\* such a run, when no call fails, ends Done with the body as the target file.
C17_FirstRunPlanFollowsProbe ==
    /\ (~hist.had_fragments /\ pc \in {"load", "create", "dispatch", "wave", "flush",
                                       "verify", "remove", "rename"}) =>
          /\ ProbeSaysRanges =>
                Ranges(load_fragments(fragments)) =
                    Ranges(plan_ranges(Unwrap(probe.total), engine.chunk_size))
          /\ ~ProbeSaysRanges => Ranges(load_fragments(fragments)) = Sentinel
          /\ hist.probe_failed => ~ProbeSaysRanges
          /\ ~ProbeSaysRanges =>
                hist.calls \subseteq {[fn |-> "download_all", start |-> 0, end_inclusive |-> 0]}
    /\ (~hist.had_fragments /\ ~ProbeSaysRanges /\ ~hist.run_faulted /\ pc = "idle"
            /\ hist.result \in {"Ok", "Err"}) =>
          /\ hist.result = "Ok"
          /\ item_status = "Done"
          /\ hist.calls = {[fn |-> "download_all", start |-> 0, end_inclusive |-> 0]}
          /\ target_file = File(Body(probe.body))

\* The probe failed on a first run, and the item is Done with the whole body.
C17_Witness ==
    /\ hist.probe_failed
    /\ ~hist.had_fragments
    /\ pc = "idle"
    /\ hist.result = "Ok"
    /\ item_status = "Done"
    /\ probe.body = MaxTotal
    /\ Ranges(load_fragments(fragments)) = Sentinel
    /\ target_file = File(Body(probe.body))

EnsureCalled == hist.last.op = "ensure_fragments_for_ranges"
EnsureCalledTwice ==
    /\ EnsureCalled
    /\ hist.prev.op = "ensure_fragments_for_ranges"
    /\ hist.prev.ranges = hist.last.ranges

\* C18: ensure_fragments_for_ranges called for an item that has a fragment changes
\* nothing, whatever the ranges; on an item without fragments it inserts the ranges as
\* Missing; a second call with the same ranges leaves what the first call left.
C18_EnsureFragmentsIdempotent ==
    /\ EnsureCalled =>
          /\ items = hist.last.before_items
          /\ Len(hist.last.before_fragments) > 0 => fragments = hist.last.before_fragments
          /\ Len(hist.last.before_fragments) = 0 =>
                /\ Ranges(fragments) = hist.last.ranges
                /\ \A id \in 1..Len(fragments) : fragments[id].state = Missing
    /\ EnsureCalledTwice => fragments = hist.last.before_fragments

\* Two calls in sequence with the same non-empty ranges, the first on an item without
\* fragments: the second found the rows of the first and left them.
C18_Witness ==
    /\ EnsureCalledTwice
    /\ Len(hist.last.ranges) > 1
    /\ Ranges(fragments) = hist.last.ranges
    /\ fragments = hist.last.before_fragments

UpsertCalled == hist.last.op = "upsert_item"
UpsertCalledAgain == UpsertCalled /\ hist.last.before_items # <<>>

\* C19: the store holds at most one item row; upsert_item for a key that has a row
\* returns the id of that row and its downloaded_bytes, leaves downloaded_bytes and the
\* fragments as they were, keeps total_size when None is passed (stores the passed one
\* otherwise) and stores the chunk_size and supports_ranges passed.
C19_UpsertItemFrame ==
    /\ Len(items) <= 1
    /\ UpsertCalled =>
          /\ Len(items) = 1
          /\ fragments = hist.last.before_fragments
          /\ items[1].chunk_size = hist.last.chunk_size
          /\ items[1].supports_ranges = hist.last.supports_ranges
          /\ hist.last.returned.item_db_id = items[1].id
          /\ hist.last.returned.downloaded_bytes = items[1].downloaded_bytes
    /\ UpsertCalledAgain =>
          LET before == hist.last.before_items[1]
          IN  /\ hist.last.returned.item_db_id = before.id
              /\ hist.last.returned.downloaded_bytes = before.downloaded_bytes
              /\ items[1].downloaded_bytes = before.downloaded_bytes
              /\ items[1].total_size = IF IsSome(hist.last.total_size)
                                       THEN hist.last.total_size ELSE before.total_size

\* upsert_item with total_size = None for a row with a known total, bytes downloaded
\* and fragments: the total, the bytes and the fragments are kept.
C19_Witness ==
    /\ UpsertCalledAgain
    /\ hist.last.total_size = None
    /\ items[1].total_size = Some(MaxTotal)
    /\ items[1].downloaded_bytes = MaxTotal
    /\ items[1].chunk_size # hist.last.before_items[1].chunk_size
    /\ Len(fragments) > 1

\* C20: for T > 0 and C >= 1 plan_ranges(T, C) returns Missing fragments that start at 0,
\* are contiguous and cover exactly [0, T), each with 0 < len <= C and all but the last
\* with len = C, ceil(T/C) of them; plan_ranges(0, C) returns the one fragment (0, 0).
C20_PlanRangesTilesTotal ==
    IsSome(hist.frags) =>
        LET f == Unwrap(hist.frags)
            T == hist.total
            C == hist.chunk_size
        IN  /\ \A k \in 1..Len(f) : f[k].state = Missing
            /\ T = 0 => Ranges(f) = <<[offset |-> 0, len |-> 0]>>
            /\ T > 0 =>
                  /\ Tiles(f, T)
                  /\ \A k \in 1..Len(f) : 0 < f[k].len /\ f[k].len <= C
                  /\ \A k \in 1..(Len(f) - 1) : f[k].len = C
                  /\ Len(f) = (T + C - 1) \div C

\* plan_ranges(7, 3): three fragments, the last one shorter than the chunk size.
C20_Witness ==
    /\ IsSome(hist.frags)
    /\ hist.total = 7 /\ hist.chunk_size = 3
    /\ Ranges(Unwrap(hist.frags)) =
          <<[offset |-> 0, len |-> 3], [offset |-> 3, len |-> 3], [offset |-> 6, len |-> 1]>>

InCriticalSection(w) == asm.writers[w].pc \in {"seek", "write"}
WriteInterval(w) ==
    asm.writers[w].offset .. (asm.writers[w].offset + Len(asm.writers[w].data) - 1)
DisjointWrites(v, w) == WriteInterval(v) \cap WriteInterval(w) = {}

\* C21: concurrent write_at calls on one Assembler are serialized: only the holder of the
\* mutex seeks or writes, a caller writes where it has sought, and after write_at calls on
\* disjoint intervals have returned Ok the file holds the bytes of each at its offset.
C21_WriteAtSerialized ==
    asm.open =>
        /\ \A w \in Writers : InCriticalSection(w) => asm.lock = w
        /\ \A w \in Writers : asm.writers[w].pc = "write" => asm.cursor = asm.writers[w].offset
        /\ \A w \in Writers :
              (/\ asm.writers[w].pc = "ok"
               /\ \A v \in Writers \ {w} : DisjointWrites(v, w))
              => FileRange(partial_file.data, asm.writers[w].offset, Len(asm.writers[w].data))
                     = asm.writers[w].data

\* Two calls on disjoint intervals, the one at the higher offset first in the file order,
\* have both returned Ok.
C21_Witness ==
    /\ asm.open
    /\ asm.writers[1].pc = "ok" /\ asm.writers[2].pc = "ok"
    /\ asm.writers[1].offset > asm.writers[2].offset
    /\ DisjointWrites(1, 2)
    /\ asm.cursor = asm.writers[2].offset + Len(asm.writers[2].data)

JobTaskRunning == job.pc \in {"start", "inputs", "items", "remove", "notify"}
EnvFailure == job.no_resolver \/ job.resolve_err \/ job.item_err

C23_PartialPathAppendsSuffix ==
    IsSome(hist.partials) =>
        LET partials == Unwrap(hist.partials)
        IN  /\ \A k \in 1..2 : partials[k] = hist.targets[k] \o <<".", "partial">>
            /\ hist.targets[1] # hist.targets[2] => partials[1] # partials[2]

\* The value of min(30000, max(b, 1) * 2^min(a, 16)) for unsigned b and a of any width:
\* the product is taken only where it is below 30000 * 2^16
AtLeast(a, bit) == \E i \in a : i >= bit
ExpectedDelay(b, a) ==
    IF AtLeast(b, 15) THEN 30000
    ELSE Min(30000, Max(IntOf(b), 1) * Pow2(IF AtLeast(a, 5) THEN 16 ELSE Min(IntOf(a), 16)))
\* attempt + 1 where it is written out; the largest attempts share one delay
NextAttempt(a) == IF AtLeast(a, 5) THEN a ELSE Bits(IntOf(a) + 1)

\* C24: the delay before retry k (attempt k-1 handed to sleep_backoff) is
\* min(30000, max(retry_backoff_ms, 1) * 2^min(k-1, 16)) ms for every 64-bit
\* retry_backoff_ms and 32-bit attempt: at least 1, at most 30000, non-decreasing in k.
C24_BackoffDelay ==
    IsSome(hist.ms) =>
        LET ms == Unwrap(hist.ms)
        IN  /\ ms = ExpectedDelay(hist.retry_backoff_ms, hist.attempt)
            /\ 1 <= ms /\ ms <= 30000
            /\ ms <= sleep_backoff(hist.retry_backoff_ms, NextAttempt(hist.attempt))

\* A retry_backoff_ms of 2^63 and attempt 1: the product does not fit 64 bits.
C24_Witness ==
    /\ hist.ms = Some(30000)
    /\ hist.retry_backoff_ms = {63}
    /\ hist.attempt = {0}

\* C25: the download command exits with code 0 when its job ends Completed and with a
\* non-zero code when its job ends Failed.
C25_ExitCodeFollowsJobStatus ==
    cli.pc = "exited" =>
        /\ jobs = "Completed" => cli.exit_code = Some(0)
        /\ jobs = "Failed" => IsSome(cli.exit_code) /\ cli.exit_code # Some(0)

\* The run under way, or the last one, started with every stored fragment Done.
StartedAllDone ==
    /\ hist.runs > 0
    /\ hist.had_fragments
    /\ hist.done_at_start = 1..Len(fragments)
RunReturned == pc = "idle" /\ hist.result \in {"Ok", "Err"}

\* C26: a run of the item pipeline that starts with every fragment of the item Done in the
\* store calls neither download_range nor download_all, and the file at target_path after
\* the run has the size and content it had before the run.
C26_RerunOfDoneItemKeepsTarget ==
    StartedAllDone =>
        /\ hist.calls = {}
        /\ RunReturned => target_file = hist.target_at_start

\* The changes of a persisted fragment state the state machine allows
AllowedTransitions ==
    {<<Missing, Downloading>>, <<Bad, Downloading>>, <<Downloading, Done>>,
     <<Downloading, Bad>>}

\* C27: every change of a persisted fragment state is Missing->Downloading,
\* Bad->Downloading, Downloading->Done or Downloading->Bad: a Done fragment never changes
\* again and no fragment becomes Done without having been set Downloading.
C27_FragmentStateTransitions ==
    [][\A id \in 1..Len(fragments) :
          fragments'[id].state # fragments[id].state
              => <<fragments[id].state, fragments'[id].state>> \in AllowedTransitions]_vars

CeilDiv(n, d) == (n + d - 1) \div d
PendingAtStart == Len(PendingOf(db_frags))
NotYetDispatched == {pending[k] : k \in 1..Len(pending)}

\* C28: in the dispatch loop of an item at most `concurrency` fragment tasks are in flight;
\* while a wave has unfinished tasks no fragment of a later wave is marked Downloading or
\* requested from the driver; N pending fragments take ceil(N / concurrency) waves.
C28_WavesOfConcurrency ==
    /\ pc = "wave" =>
          /\ Cardinality(DOMAIN tasks) <= engine.concurrency
          /\ \A i \in NotYetDispatched :
                /\ i \notin DOMAIN tasks
                /\ db_frags[i].frag_db_id \notin hist.requested
                /\ fragments[db_frags[i].frag_db_id].state = db_frags[i].state
    /\ pc \in {"dispatch", "wave"} => hist.waves <= CeilDiv(PendingAtStart, engine.concurrency)
    /\ pc = "flush" => hist.waves = CeilDiv(PendingAtStart, engine.concurrency)

\* 3 pending fragments with concurrency 2 were downloaded in 2 waves.
C28_Witness ==
    /\ pc = "flush"
    /\ PendingAtStart = 3
    /\ engine.concurrency = 2
    /\ hist.waves = 2
    /\ completed_frags = 3

FilesChange == target_file' # target_file \/ (partial_file.exists /\ ~partial_file'.exists)

\* C29: the target is removed and the partial file renamed to it only when every fragment
\* record of the item, reloaded after the dispatch loop and the flush, is Done; when one
\* is not Done the item fails and neither file is removed or renamed.
C29_PromoteOnlyWhenAllDone ==
    [][/\ FilesChange => pc \in {"remove", "rename"} /\ AllDone(load_fragments(fragments))
       /\ (pc = "verify" /\ ~AllDone(load_fragments(fragments)))
             => /\ pc' = "idle"
                /\ hist'.result \in {"Err", "Crashed"}
                /\ ~FilesChange]_vars

\* An item failed at the verification (a fragment left Downloading by an earlier run is
\* not pending work) and its partial file is still there.
C29_Witness ==
    /\ pc = "idle"
    /\ hist.result = "Err"
    /\ ~hist.run_faulted
    /\ ~hist.interrupted
    /\ ~AllDone(load_fragments(fragments))
    /\ partial_file.exists

NotYetRequested == {i \in DOMAIN tasks : tasks[i].pc \in {"set_state", "driver"}}
TaskFailureStep == pc = "wave" /\ pc' = "idle" /\ hist'.result = "Err"
FailedRun == pc = "idle" /\ hist.result = "Err" /\ hist.interrupted

\* C30: within one run of the item pipeline a fragment is requested from the driver at
\* most once; when a fragment task of a wave fails no further wave is started, the
\* assembler is not promoted and the item pipeline returns the failure.
C30_NoRedispatchAfterFailure ==
    [][/\ pc = "wave" =>
             \A i \in NotYetRequested : db_frags[i].frag_db_id \notin hist.requested
       /\ TaskFailureStep =>
             /\ tasks' = NoTasks
             /\ item_status' = "Failed"
             /\ hist'.waves = hist.waves
             /\ target_file' = target_file
             /\ partial_file' = partial_file
       /\ (FailedRun /\ hist'.runs = hist.runs) =>
             /\ hist'.waves = hist.waves
             /\ hist'.requested = hist.requested
             /\ target_file' = target_file]_vars

\* A task of the first wave failed while a fragment was still waiting for the next wave:
\* that fragment was never requested and the item has failed.
C30_Witness ==
    /\ FailedRun
    /\ item_status = "Failed"
    /\ hist.waves = 1
    /\ Len(fragments) = 3
    /\ fragments[3].state = Missing
    /\ 3 \notin hist.requested
    /\ ~target_file.exists

\* The events of the job that belong to the download of item k, in the order they were sent
IsDownloadEvent(e, k) ==
    /\ e.item = k
    /\ \/ e.ev \in {"ItemStatusChanged", "FragmentDone", "Progress"}
       \/ e.ev = "Error" /\ e.status \in {"item", "download_fragment"}
ItemLog(k) == SelectSeq(job.events, LAMBDA e : IsDownloadEvent(e, k))

ItemTerminal(e) == e.ev = "ItemStatusChanged" /\ e.status \in {"Done", "Failed"}
ItemTerminals(log) == {i \in 1..Len(log) : ItemTerminal(log[i])}

\* download_item has returned for item k and run_job has handled the result
ItemHandled(k) == \E i \in 1..Len(job.items) : job.items[i] = k /\ i < job.next_item

FragmentedItem(k) == ResourceOf(job.inputs[k]) \notin SingleShotTypes

\* C31: the download events of every item begin with ItemStatusChanged(Downloading); every
\* FragmentDone and Progress comes before ItemStatusChanged(Assembling) and before the
\* terminal status; Done follows Assembling directly for an item of the fragmented
\* pipeline; Failed follows the Error of scope item directly; at most one terminal status
\* is sent, it is the item's last event, and exactly one once the item was handled.
C31_ItemEventsOrder ==
    job.pc # "none" =>
        \A k \in 1..Len(job.inputs) :
            LET log == ItemLog(k)
            IN  /\ log # <<>> => log[1] = ItemStatusChanged(k, "Downloading")
                /\ \A i \in 2..Len(log) : log[i] # ItemStatusChanged(k, "Downloading")
                /\ \A i, j \in 1..Len(log) :
                      /\ log[i].ev \in {"FragmentDone", "Progress"}
                      /\ \/ log[j] = ItemStatusChanged(k, "Assembling")
                         \/ ItemTerminal(log[j])
                      => i < j
                /\ \A i \in 1..Len(log) :
                      /\ log[i] = ItemStatusChanged(k, "Done") /\ FragmentedItem(k)
                            => i > 1 /\ log[i - 1] = ItemStatusChanged(k, "Assembling")
                      /\ log[i] = ItemStatusChanged(k, "Failed")
                            => i > 1 /\ log[i - 1] = Error(k, "item")
                      /\ log[i] = ItemStatusChanged(k, "Assembling")
                            => i < Len(log) /\ (ItemTerminal(log[i + 1])
                                                \/ log[i + 1] = Error(k, "item"))
                /\ Cardinality(ItemTerminals(log)) <= 1
                /\ ItemTerminals(log) \subseteq {Len(log)}
                /\ ItemHandled(k) => Cardinality(ItemTerminals(log)) = 1

\* A finished job with an item that completed a fragment, was assembled and is Done, and
\* an item that failed in a fragment task
C31_Witness ==
    /\ is_job_finished
    /\ \E k1, k2 \in job.resolved :
          /\ FragmentedItem(k1) /\ Sent(FragmentDone(k1))
          /\ Sent(ItemStatusChanged(k1, "Assembling")) /\ Sent(ItemStatusChanged(k1, "Done"))
          /\ Sent(Error(k2, "download_fragment")) /\ Sent(ItemStatusChanged(k2, "Failed"))

\* C37: every item of a resolved input has a primary resource that download_item hands to
\* a single-shot driver or for which driver_for returns a driver, and no item fails with
\* "no driver for resource".
C37_ResolvedItemsHaveDriver ==
    job.pc # "none" =>
        /\ \A k \in job.resolved :
              \/ ResourceOf(job.inputs[k]) \in SingleShotTypes
              \/ IsSome(driver_for(ResourceOf(job.inputs[k])))
        /\ ~job.no_driver

RangeCalls == {c \in hist.calls : c.fn = "download_range"}

\* C32: driver.download_range is called only in a run whose probe returned
\* supports_ranges with a known total, also when the run found fragments stored.
C32_RangeCallsFollowCurrentProbe ==
    RangeCalls # {} => ProbeSaysRanges

AllJobsEnsured == \A j \in Jobs : hist.jobs[j].pc = "done"

\* C33: when the jobs that download the same item have all returned from
\* ensure_fragments_for_ranges, the item's fragments are those of one planning.
C33_ConcurrentJobsPlanOnce ==
    AllJobsEnsured =>
        fragments = MissingRows(RangesToEnsure(hist.total, hist.supports_ranges,
                                               hist.chunk_size))

\* C34: a call of wait_job has returned only when the stored status of the job is
\* Completed or Failed, and it returns in a step in which is_job_finished already holds.
C34_WaitJobReturnsOnlyWhenFinished ==
    /\ [](\A w \in Waiters : waiters[w].pc = "returned" => is_job_finished)
    /\ [][\A w \in Waiters :
             (waiters[w].pc # "returned" /\ waiters'[w].pc = "returned")
                 => (is_job_finished /\ is_job_finished')]_vars

\* A call of wait_job that found the notifier, waited, and can return now that the job
\* is finished
C34_Witness ==
    \E w \in Waiters :
        /\ waiters[w].pc = "waiting"
        /\ notify_calls > waiters[w].seen
        /\ jobs \in {"Completed", "Failed"}

StatusMoves == {<<"none", "Pending">>, <<"Pending", "Running">>,
                <<"Running", "Completed">>, <<"Running", "Failed">>}

\* C36: the stored status of a job moves only along Pending, Running, then Completed or
\* Failed; it is stored from the moment add_and_start returns; Paused is never stored;
\* once is_job_finished holds it holds for ever.
C36_JobStatusLifecycle ==
    /\ [](job.pc \notin {"none", "new"} =>
             jobs \in {"Pending", "Running", "Completed", "Failed"})
    /\ [](jobs # "Paused")
    /\ [][jobs' # jobs => <<jobs, jobs'>> \in StatusMoves]_vars
    /\ [][is_job_finished => (is_job_finished' /\ jobs' = jobs)]_vars

\* A finished job of each kind after it went through Running
C36_Witness ==
    /\ is_job_finished
    /\ job.pc = "done"
    /\ Sent(JobStatusChanged("Pending")) /\ Sent(JobStatusChanged("Running"))

DoneFragments == {id \in 1..Len(fragments) : fragments[id].state = Done}
TaskOf(id) == {i \in DOMAIN tasks : db_frags[i].frag_db_id = id}

\* C35: a fragment becomes Done in the store only in a step of its own task, which is past
\* a successful write_at; a task gets there only through the step that writes the bytes the
\* driver returned at the fragment's offset of the partial file; and the step in which a
\* task fails (driver, write or store) makes no fragment Done.
C35_DoneOnlyAfterWrite ==
    [][/\ \A id \in DoneFragments' \ DoneFragments :
             /\ pc = "wave"
             /\ \E i \in TaskOf(id) : tasks[i].pc = "mark_done"
       /\ pc = "wave" =>
             \A i \in DOMAIN tasks :
                 (/\ tasks[i].pc # "mark_done"
                  /\ pc' = "wave" /\ i \in DOMAIN tasks' /\ tasks'[i].pc = "mark_done")
                     => /\ tasks[i].pc = "write"
                        /\ IsSome(hist.returned[db_frags[i].frag_db_id])
                        /\ tasks[i].bytes = Unwrap(hist.returned[db_frags[i].frag_db_id])
                        /\ partial_file' = File(WriteAt(partial_file.data, db_frags[i].offset,
                                                        tasks[i].bytes))
       /\ TaskFailureStep => DoneFragments' = DoneFragments]_vars

\* A fragment is Done, its task being past the write that put its bytes into the partial
\* file, and an earlier run failed in a fragment task
C35_Witness ==
    /\ pc = "wave"
    /\ hist.faults > 0
    /\ \E i \in DOMAIN tasks :
          /\ tasks[i].pc = "add_bytes"
          /\ tasks[i].bytes # <<>>
          /\ fragments[db_frags[i].frag_db_id].state = Done
          /\ partial_file.exists

\* C39: within a run the Progress events carry downloaded values that never decrease from
\* one event to the next.
C39_ProgressNeverDecreases ==
    [][(IsSome(hist.last_progress) /\ IsSome(hist'.last_progress))
          => Unwrap(hist'.last_progress) >= Unwrap(hist.last_progress)]_vars

DoneAtStart == Cardinality(hist.done_at_start)

\* C40: within a run every FragmentDone event carries the completed value of the event
\* before plus one, the first one the number of fragments Done at the start plus one; no
\* value exceeds the number of fragments; a run that ends Ok has sent the value total,
\* or sent no FragmentDone because every fragment was Done at its start.
C40_FragmentDoneCountsUp ==
    /\ [][hist'.last_fragment_done # hist.last_fragment_done /\ hist'.runs = hist.runs
             => hist'.last_fragment_done =
                   Some(IF IsSome(hist.last_fragment_done)
                        THEN Unwrap(hist.last_fragment_done) + 1
                        ELSE DoneAtStart + 1)]_vars
    /\ [][pc = "wave" /\ completed_frags' = completed_frags + 1
             => hist'.last_fragment_done = Some(completed_frags')]_vars
    /\ [](IsSome(hist.last_fragment_done)
             => Unwrap(hist.last_fragment_done) <= Len(fragments))
    /\ [](hist.result = "Ok" =>
             IF IsSome(hist.last_fragment_done)
             THEN Unwrap(hist.last_fragment_done) = Len(fragments)
             ELSE DoneAtStart = Len(fragments))

\* A run that began with one of three fragments Done, sent FragmentDone 2 and 3, and
\* ended Ok
C40_Witness ==
    /\ hist.result = "Ok"
    /\ pc = "idle"
    /\ DoneAtStart = 1
    /\ Len(fragments) = 3
    /\ hist.last_fragment_done = Some(3)

\* C38: once the job of the download command is Completed or Failed, the UI task that
\* main awaits comes to its end.
C38_UiTaskEnds ==
    is_job_finished ~> (cli.ui = "done")

====
